---- MODULE Spec2Model ----
(***************************************************************************)
(* DailyLetterGame: the daily pattern generator (daily_game/generator.py)  *)
(* with its persisted history log (used_patterns.json), today record       *)
(* (today.json) and cached feature table (feature_table.npz).              *)
(*                                                                         *)
(* Spec      the engine's operations, one call at a time                   *)
(* SpecConc  concurrent /api/today requests, each running                  *)
(*           ensure_today_puzzle() step by step on the shared files        *)
(* SpecSteps calls made one after another, step by step, with the date     *)
(*           changing and calls dying between steps                        *)
(* SpecApi   the web layer's /api/today, /api/random and /api/check        *)
(* SpecRank, SpecHints, SpecTemplates, SpecSubsample, SpecPqs              *)
(*           filter_and_rank, generate_hints, the templates, their         *)
(*           subsampling step and pqs, each applied to bounded inputs      *)
(***************************************************************************)
EXTENDS Integers, Sequences, FiniteSets, TLC

VARIABLES
    now,          \* datetime.utcnow(), as a day number (days since 2024-12-01)
    featureTable, \* data/feature_table.npz
    usedFile,     \* data/used_patterns.json
    todayFile,    \* data/today.json
    result,       \* what the last call returned or raised
    pc,           \* SpecConc: each request's position
    loc,          \* SpecConc: each request's local variables
    appended,     \* SpecConc: the records whose json.dump completed, in order
    randomPuzzleCache \* SpecApi: app._RANDOM_PUZZLE_CACHE, token -> entry

vars == <<now, featureTable, usedFile, todayFile, result, pc, loc, appended, randomPuzzleCache>>

files == <<featureTable, usedFile, todayFile>>

\* what the engine's own operations leave alone: the requests of SpecConc and
\* the web layer's cache
conc == <<pc, loc, appended, randomPuzzleCache>>

(***************************************************************************)
(* Bounds of the model                                                     *)
(***************************************************************************)
\* how many days the clock advances past StartDay
MaxDays == 2

\* the day the model starts on: day 61 is 2025-01-31
StartDay == 61

\* how many concurrent requests SpecConc runs
NumProcs == 3

(***************************************************************************)
(* Program constants                                                       *)
(***************************************************************************)
NO_REUSE_DAYS == 30

MAX_WORD_REUSE_PER_MONTH == 2

WORD_WINDOW_DAYS == 31

\* MIN_PQS = 0.7; scores are held in thousandths
MIN_PQS == 700

MIN_WORDS == 4

MAX_WORDS == 10

\* Python's None
None == "<None>"

(***************************************************************************)
(* datetime.utcnow().strftime("%Y-%m-%d") and timedelta(days=n).           *)
(* A date string is the sequence of its characters' code points, so that   *)
(* Python's str comparison is the lexicographic order on it.               *)
(***************************************************************************)
IsLeap(y) == (y % 4 = 0 /\ y % 100 # 0) \/ y % 400 = 0

DaysInMonth(y, m) ==
    IF m = 2 THEN (IF IsLeap(y) THEN 29 ELSE 28)
    ELSE IF m \in {4, 6, 9, 11} THEN 30 ELSE 31

RECURSIVE YMD(_, _, _)
\* the calendar date n days after the first of month m of year y
YMD(y, m, n) ==
    IF n < DaysInMonth(y, m) THEN <<y, m, n + 1>>
    ELSE IF m = 12 THEN YMD(y + 1, 1, n - DaysInMonth(y, m))
    ELSE YMD(y, m + 1, n - DaysInMonth(y, m))

\* day number 0 is 2024-12-01
DateOf(day) == YMD(2024, 12, day)

Chr(d) == 48 + d

Dash == 45

Strftime(day) ==
    LET ymd == DateOf(day)
        y == ymd[1]
        m == ymd[2]
        d == ymd[3]
    IN  << Chr(y \div 1000), Chr((y \div 100) % 10), Chr((y \div 10) % 10), Chr(y % 10),
           Dash, Chr(m \div 10), Chr(m % 10),
           Dash, Chr(d \div 10), Chr(d % 10) >>

RECURSIVE StrLess(_, _)
\* Python's s < t on strings: lexicographic by code point, a proper prefix first
StrLess(s, t) ==
    IF t = <<>> THEN FALSE
    ELSE IF s = <<>> THEN TRUE
    ELSE IF Head(s) # Head(t) THEN Head(s) < Head(t)
    ELSE StrLess(Tail(s), Tail(t))

StrGeq(s, t) == ~StrLess(s, t)

TodayStr(t) == Strftime(t)

\* faulty variant: the windows reach one day further back
CutoffOneDayEarlier(t, within_days) == Strftime(t - within_days - 1)

Cutoff(t, within_days) == Strftime(t - within_days)

(***************************************************************************)
(* Candidate patterns (patterns.CandidatePattern) and the feature tables   *)
(* the model runs on.  A table is held as the candidates the templates     *)
(* derive from it, in run_all_templates order, each with the score pqs()   *)
(* computes for it on that table (in thousandths).                         *)
(***************************************************************************)
Candidate(words, direction, template_id, metric_a, metric_b, constraint_desc, score) ==
    [ words |-> words,
      rule_description |-> [direction |-> direction, metric |-> metric_a],
      template_id |-> template_id,
      metric_a |-> metric_a,
      metric_b |-> metric_b,
      constraint_desc |-> constraint_desc,
      score |-> score ]

EntropyHigh ==
    Candidate(<<"kayak", "level", "civic", "radar">>, "highest",
              "extreme_outliers", "entropy", None, "length>=5", 2304)

LengthHigh ==
    Candidate(<<"kayak", "zebra", "waltz", "glyph">>, "highest",
              "extreme_outliers", "length", None, "length>=5", 1507)

EntropyLow ==
    Candidate(<<"zebra", "quilt", "fjord", "nymph">>, "lowest",
              "extreme_outliers", "entropy", None, "length>=5", 1915)

VowelLow ==
    Candidate(<<"nymph", "glyph", "crypt", "waltz">>, "lowest",
              "extreme_outliers", "vowel_ratio", None, "length>=5", 612)

VowelConstrained ==
    Candidate(<<"level", "quilt", "waltz", "crypt">>, "very high",
              "constrained_extremes", "vowel_ratio", "unique_letters",
              "unique_letters>=6", 1206)

LengthEntropyRatio ==
    Candidate(<<"kayak", "civic", "fjord", "crypt">>, "unusually high",
              "ratio_anomaly", "length", "entropy", None, 905)

FullTable ==
    <<EntropyHigh, LengthHigh, EntropyLow, VowelLow, VowelConstrained, LengthEntropyRatio>>

SmallTable == <<LengthHigh, LengthEntropyRatio>>

WeakTable == <<VowelLow>>

Tables == {FullTable, SmallTable, WeakTable}

(***************************************************************************)
(* patterns.run_all_templates and scoring.filter_and_rank                  *)
(***************************************************************************)
MAX_PER_TEMPLATE == 40

Min(a, b) == IF a <= b THEN a ELSE b

Take(s, n) == SubSeq(s, 1, Min(n, Len(s)))

IsHighOutlier(c) ==
    c.template_id = "extreme_outliers" /\ c.rule_description.direction = "highest"

IsLowOutlier(c) ==
    c.template_id = "extreme_outliers" /\ c.rule_description.direction = "lowest"

IsConstrained(c) == c.template_id = "constrained_extremes"

IsRatio(c) == c.template_id = "ratio_anomaly"

\* the four template runs, each cut to max_per_template, concatenated
RunAllTemplates(table, max_per_template) ==
    Take(SelectSeq(table, IsHighOutlier), max_per_template)
    \o Take(SelectSeq(table, IsLowOutlier), max_per_template)
    \o Take(SelectSeq(table, IsConstrained), max_per_template)
    \o Take(SelectSeq(table, IsRatio), max_per_template)

\* scoring.pqs(candidate, table), in thousandths
Pqs(c) == c.score

RECURSIVE InsertDesc(_, _)
\* x put after every element whose score is >= its own (list.sort is stable)
InsertDesc(sorted, x) ==
    IF sorted = <<>> THEN <<x>>
    ELSE IF Head(sorted).pqs >= x.pqs THEN <<Head(sorted)>> \o InsertDesc(Tail(sorted), x)
    ELSE <<x>> \o sorted

RECURSIVE SortDesc(_)
SortDesc(s) ==
    IF s = <<>> THEN <<>>
    ELSE InsertDesc(SortDesc(SubSeq(s, 1, Len(s) - 1)), s[Len(s)])

Scored(c) == [candidate |-> c, pqs |-> Pqs(c)]

RECURSIVE MapScored(_)
MapScored(cands) ==
    IF cands = <<>> THEN <<>> ELSE <<Scored(Head(cands))>> \o MapScored(Tail(cands))

\* faulty variant: a candidate at exactly min_pqs is dropped and the list is left unsorted
FilterUnranked(candidates, min_pqs, min_words, max_words) ==
    LET keep(sc) == /\ min_words <= Len(sc.candidate.words)
                    /\ Len(sc.candidate.words) <= max_words
                    /\ sc.pqs > min_pqs
    IN  SelectSeq(MapScored(candidates), keep)

\* (candidate, pqs) pairs with the word count in range and pqs >= min_pqs,
\* sorted by pqs descending
FilterAndRank(candidates, min_pqs, min_words, max_words) ==
    LET keep(sc) == /\ min_words <= Len(sc.candidate.words)
                    /\ Len(sc.candidate.words) <= max_words
                    /\ sc.pqs >= min_pqs
    IN  SortDesc(SelectSeq(MapScored(candidates), keep))

\* lines 103-108 and 208-209 of the generator: the ranked pool of a table
RankedPool(table) ==
    FilterAndRank(RunAllTemplates(table, MAX_PER_TEMPLATE), MIN_PQS, MIN_WORDS, MAX_WORDS)

(***************************************************************************)
(* scoring.difficulty_from_pqs, round(pqs, 2), hints.generate_hints        *)
(***************************************************************************)
\* faulty variant: the band boundaries belong to the band below
DifficultyAboveBoundary(pqs_score) ==
    IF pqs_score > 2200 THEN "easy"
    ELSE IF pqs_score > 1400 THEN "medium"
    ELSE "hard"

DifficultyFromPqs(pqs_score) ==
    IF pqs_score >= 2200 THEN "easy"
    ELSE IF pqs_score >= 1400 THEN "medium"
    ELSE "hard"

\* round(pqs_score, 2) on a score in thousandths
Round2(pqs_score) == ((pqs_score + 5) \div 10) * 10

MetricHintKeys ==
    { "length", "unique_letters", "entropy", "max_letter_frequency", "vowel_ratio",
      "corpus_frequency", "vowel_spacing_std", "alphabetic_order_score",
      "bigram_probability", "edit_density", "consonant_runs" }

\* the metrics whose third hint contains "unusual" and neither "high" nor "low"
ThirdHintTakesDirection ==
    { "length", "unique_letters", "vowel_ratio", "vowel_spacing_std",
      "alphabetic_order_score", "bigram_probability", "consonant_runs" }

\* faulty variant: the direction is always high
DirectionAlwaysHigh(rule) == "high"

\* "lowest" in r or "low " in r
DirectionFromRule(rule) ==
    IF rule.direction \in {"lowest", "unusually high"} THEN "low" ELSE "high"

\* faulty variant: METRIC_HINTS.get(metric) without a default
GenerateHintsNoFallback(pattern) ==
    IF pattern.metric_a \notin MetricHintKeys THEN <<>>
    ELSE << [topic |-> pattern.metric_a, level |-> 1, unusually |-> ""],
            [topic |-> pattern.metric_a, level |-> 2, unusually |-> ""],
            [topic |-> pattern.metric_a, level |-> 3, unusually |-> ""] >>

GenerateHints(pattern) ==
    LET metric == IF pattern.metric_a = None THEN "entropy" ELSE pattern.metric_a
        key == IF metric \in MetricHintKeys THEN metric ELSE "entropy"
        direction == DirectionFromRule(pattern.rule_description)
        h3 == IF pattern.template_id = "extreme_outliers" /\ key \in ThirdHintTakesDirection
              THEN [topic |-> key, level |-> 3, unusually |-> direction]
              ELSE [topic |-> key, level |-> 3, unusually |-> ""]
    IN  << [topic |-> key, level |-> 1, unusually |-> ""],
           [topic |-> key, level |-> 2, unusually |-> ""],
           h3 >>

(***************************************************************************)
(* The history log: load_used_patterns, the signature and the two windows  *)
(***************************************************************************)
MissingFile == [state |-> "missing", data |-> <<>>]

CorruptFile == [state |-> "corrupt", data |-> <<>>]

OkFile(data) == [state |-> "ok", data |-> data]

\* returns [] for a missing file; json.load raises on a file that is no JSON
LoadUsedPatterns(file) ==
    IF file.state = "missing" THEN [raised |-> "", value |-> <<>>]
    ELSE IF file.state = "corrupt" THEN [raised |-> "JSONDecodeError", value |-> <<>>]
    ELSE [raised |-> "", value |-> file.data]

\* f"{x}"
PyStr(x) == IF x = None THEN "None" ELSE x

\* x or ''
OrEmpty(x) == IF x = None THEN "" ELSE x

\* faulty variant: the direction of the rule is part of a candidate's signature
PatternSignatureWithDirection(p) ==
    PyStr(p.template_id) \o "|" \o PyStr(p.metric_a) \o "|" \o OrEmpty(p.metric_b)
        \o "|" \o OrEmpty(p.constraint_desc) \o "|" \o p.rule_description.direction

PatternSignature(p) ==
    PyStr(p.template_id) \o "|" \o PyStr(p.metric_a) \o "|" \o OrEmpty(p.metric_b)
        \o "|" \o OrEmpty(p.constraint_desc)

\* the f-string of _recent_signatures, on a history entry
EntrySignature(u) ==
    PyStr(u.template_id) \o "|" \o PyStr(u.metric_a) \o "|" \o OrEmpty(u.metric_b)
        \o "|" \o OrEmpty(u.constraint_desc)

\* faulty variant: the cutoff day compared with > instead of >=
RecentSignaturesAfterCutoff(used, within_days, t) ==
    { EntrySignature(used[i]) :
        i \in { j \in 1..Len(used) : StrLess(Cutoff(t, within_days), used[j].date) } }

RecentSignatures(used, within_days, t) ==
    { EntrySignature(used[i]) :
        i \in { j \in 1..Len(used) : StrGeq(used[j].date, Cutoff(t, within_days)) } }

RECURSIVE Occurrences(_, _)
Occurrences(words, w) ==
    IF words = <<>> THEN 0
    ELSE (IF Head(words) = w THEN 1 ELSE 0) + Occurrences(Tail(words), w)

RECURSIVE CountWord(_, _, _)
CountWord(used, cutoff, w) ==
    IF used = <<>> THEN 0
    ELSE (IF StrGeq(Head(used).date, cutoff) THEN Occurrences(Head(used).words, w) ELSE 0)
         + CountWord(Tail(used), cutoff, w)

\* counts.get(w, 0) on the dictionary _word_use_counts(used) builds
WordUseCounts(used, within_days, t, w) == CountWord(used, Cutoff(t, within_days), w)

(***************************************************************************)
(* select_best_pattern and _get_scored_candidates                          *)
(***************************************************************************)
SignatureIsRecent(candidate, recent_sigs) == PatternSignature(candidate) \in recent_sigs

\* faulty variant: a word is overused only past the cap (> instead of >=)
HasWordPastCap(candidate, used, t) ==
    \E i \in 1..Len(candidate.words) :
        WordUseCounts(used, WORD_WINDOW_DAYS, t, candidate.words[i]) > MAX_WORD_REUSE_PER_MONTH

\* overused = [w for w in candidate.words if word_counts.get(w, 0) >= MAX...]
HasOverusedWord(candidate, used, t) ==
    \E i \in 1..Len(candidate.words) :
        WordUseCounts(used, WORD_WINDOW_DAYS, t, candidate.words[i]) >= MAX_WORD_REUSE_PER_MONTH

\* faulty variant: the recent-signature filter is not applied
SkippedOnlyOverused(candidate, used, t, skip_recent, skip_overused) ==
    skip_overused /\ HasOverusedWord(candidate, used, t)

\* the body of the loop over scored: TRUE when the candidate is skipped
Skipped(candidate, used, t, skip_recent, skip_overused) ==
    LET recent_sigs == IF skip_recent THEN RecentSignatures(used, NO_REUSE_DAYS, t) ELSE {}
    IN  \/ SignatureIsRecent(candidate, recent_sigs)
        \/ skip_overused /\ HasOverusedWord(candidate, used, t)

\* faulty variant: the scan starts at the second-ranked candidate
FirstKeptAfterTop(scored, used, t, skip_recent, skip_overused) ==
    LET kept == SelectSeq(Tail(scored),
                          LAMBDA s : ~Skipped(s.candidate, used, t, skip_recent, skip_overused))
    IN  IF scored = <<>> \/ kept = <<>>
        THEN [kind |-> "None", raised |-> "", pattern |-> <<>>, pqs |-> 0]
        ELSE [kind |-> "pattern", raised |-> "", pattern |-> kept[1].candidate, pqs |-> kept[1].pqs]

RECURSIVE FirstKeptOrLast(_, _, _, _, _)
\* faulty variant: the lowest-ranked candidate is returned when every one is skipped
FirstKeptOrLast(scored, used, t, skip_recent, skip_overused) ==
    IF scored = <<>> THEN [kind |-> "None", raised |-> "", pattern |-> <<>>, pqs |-> 0]
    ELSE IF /\ Skipped(Head(scored).candidate, used, t, skip_recent, skip_overused)
            /\ Tail(scored) # <<>>
         THEN FirstKeptOrLast(Tail(scored), used, t, skip_recent, skip_overused)
    ELSE [kind |-> "pattern", raised |-> "",
          pattern |-> Head(scored).candidate, pqs |-> Head(scored).pqs]

RECURSIVE FirstKept(_, _, _, _, _)
\* the loop of select_best_pattern: the first pair not skipped, or None
FirstKept(scored, used, t, skip_recent, skip_overused) ==
    IF scored = <<>> THEN [kind |-> "None", raised |-> "", pattern |-> <<>>, pqs |-> 0]
    ELSE IF Skipped(Head(scored).candidate, used, t, skip_recent, skip_overused)
         THEN FirstKept(Tail(scored), used, t, skip_recent, skip_overused)
    ELSE [kind |-> "pattern", raised |-> "",
          pattern |-> Head(scored).candidate, pqs |-> Head(scored).pqs]

SelectBestPattern(table, file, t, skip_recent_metric_combos, skip_overused_words) ==
    LET scored == RankedPool(table)
        used == LoadUsedPatterns(file)
    IN  IF scored = <<>> THEN [kind |-> "None", raised |-> "", pattern |-> <<>>, pqs |-> 0]
        ELSE IF used.raised # ""
             THEN [kind |-> "raise", raised |-> used.raised, pattern |-> <<>>, pqs |-> 0]
        ELSE FirstKept(scored, used.value, t, skip_recent_metric_combos, skip_overused_words)

GetScoredCandidates(table, file, t, skip_recent, skip_overused) ==
    LET scored == RankedPool(table)
        used == LoadUsedPatterns(file)
        keep(sc) == ~Skipped(sc.candidate, used.value, t, skip_recent, skip_overused)
    IN  IF scored = <<>> THEN [raised |-> "", pool |-> <<>>]
        ELSE IF used.raised # "" THEN [raised |-> used.raised, pool |-> <<>>]
        ELSE [raised |-> "", pool |-> SelectSeq(scored, keep)]

(***************************************************************************)
(* Persistence: save_used_pattern, _write_today_json, load_today           *)
(***************************************************************************)
UsedRecord(pattern, pqs_score, t) ==
    [ date |-> Strftime(t),
      rule |-> pattern.rule_description,
      template_id |-> pattern.template_id,
      metric_a |-> pattern.metric_a,
      metric_b |-> pattern.metric_b,
      constraint_desc |-> pattern.constraint_desc,
      words |-> pattern.words,
      pqs |-> pqs_score ]

\* faulty variant: the log is written without the records it held
SaveOnlyNewRecord(file, pattern, pqs_score, t) ==
    [raised |-> "", file |-> OkFile(<<UsedRecord(pattern, pqs_score, t)>>)]

\* the file save_used_pattern leaves: what it loaded, plus one record
SaveUsedPattern(file, pattern, pqs_score, t) ==
    LET used == LoadUsedPatterns(file)
    IN  IF used.raised # "" THEN [raised |-> used.raised, file |-> file]
        ELSE [raised |-> "",
              file |-> OkFile(Append(used.value, UsedRecord(pattern, pqs_score, t)))]

TodayPayload(pattern, pqs_score, t) ==
    [ date |-> Strftime(t),
      words |-> pattern.words,
      hints |-> GenerateHints(pattern),
      rule |-> pattern.rule_description,
      difficulty |-> DifficultyFromPqs(pqs_score),
      pqs |-> Round2(pqs_score),
      metric_a |-> pattern.metric_a ]

WriteTodayJson(pattern, pqs_score, t) == OkFile(TodayPayload(pattern, pqs_score, t))

PuzzleDict(pattern, pqs_score) ==
    [ words |-> pattern.words,
      rule |-> pattern.rule_description,
      template_id |-> pattern.template_id,
      pqs |-> Round2(pqs_score),
      difficulty |-> DifficultyFromPqs(pqs_score),
      hints |-> GenerateHints(pattern),
      metric_a |-> pattern.metric_a ]

\* {**_puzzle_dict(pattern, pqs_score), "date": ...}
DailyDict(pattern, pqs_score, t) ==
    [ words |-> pattern.words,
      rule |-> pattern.rule_description,
      template_id |-> pattern.template_id,
      pqs |-> Round2(pqs_score),
      difficulty |-> DifficultyFromPqs(pqs_score),
      hints |-> GenerateHints(pattern),
      metric_a |-> pattern.metric_a,
      date |-> Strftime(t) ]

\* what a call hands back: a value (kind "puzzle" or "None") or an exception
Returned(data) == [kind |-> "puzzle", data |-> data]

ReturnedNone == [kind |-> "None", data |-> <<>>]

Raised(exc) == [kind |-> exc, data |-> <<>>]

\* faulty variant: the record is returned whatever its date
LoadTodayAnyDate(file, t) ==
    IF file.state # "ok" THEN ReturnedNone ELSE Returned(file.data)

LoadToday(file, t) ==
    IF file.state # "ok" THEN ReturnedNone
    ELSE IF file.data.date # TodayStr(t) THEN ReturnedNone
    ELSE Returned(file.data)

\* faulty variant: a missing table is read as an empty one
LoadFeatureTableOrEmpty(ft) ==
    IF ft.state = "missing" THEN [raised |-> "", table |-> <<>>]
    ELSE [raised |-> "", table |-> ft.data]

\* load_feature_table: raises when the table was never built
LoadFeatureTable(ft) ==
    IF ft.state = "missing" THEN [raised |-> "FileNotFoundError", table |-> <<>>]
    ELSE [raised |-> "", table |-> ft.data]

(***************************************************************************)
(* generate_daily, ensure_today_puzzle, generate_random_puzzle: each gives *)
(* what the call returns and the files it leaves                           *)
(***************************************************************************)
Outcome(ret, used, today) == [ret |-> ret, used |-> used, today |-> today]

\* faulty variant: the pick is recorded in the log but today.json is not rewritten
GenerateDailyKeepsToday(ft, used, today, t) ==
    LET loaded == LoadFeatureTable(ft)
        best == SelectBestPattern(loaded.table, used, t, TRUE, TRUE)
        saved == SaveUsedPattern(used, best.pattern, best.pqs, t)
    IN  IF loaded.raised # "" THEN Outcome(Raised(loaded.raised), used, today)
        ELSE IF best.kind # "pattern" THEN Outcome(ReturnedNone, used, today)
        ELSE Outcome(Returned(DailyDict(best.pattern, best.pqs, t)), saved.file, today)

GenerateDailyCall(ft, used, today, t) ==
    LET loaded == LoadFeatureTable(ft)
        best == SelectBestPattern(loaded.table, used, t, TRUE, TRUE)
        saved == SaveUsedPattern(used, best.pattern, best.pqs, t)
    IN  IF loaded.raised # "" THEN Outcome(Raised(loaded.raised), used, today)
        ELSE IF best.kind = "raise" THEN Outcome(Raised(best.raised), used, today)
        ELSE IF best.kind = "None" THEN Outcome(ReturnedNone, used, today)
        ELSE IF saved.raised # "" THEN Outcome(Raised(saved.raised), used, today)
        ELSE Outcome(Returned(DailyDict(best.pattern, best.pqs, t)),
                     saved.file,
                     WriteTodayJson(best.pattern, best.pqs, t))

\* faulty variant: the stored record is not consulted
EnsureAlwaysGenerates(ft, used, today, t) == GenerateDailyCall(ft, used, today, t)

EnsureTodayPuzzleCall(ft, used, today, t) ==
    LET data == LoadToday(today, t)
    IN  IF data.kind # "None" THEN Outcome(data, used, today)
        ELSE GenerateDailyCall(ft, used, today, t)

\* faulty variant: the random pick is recorded like a daily pick
GenerateRandomPuzzleRecorded(ft, used, today, t) ==
    LET loaded == LoadFeatureTable(ft)
        got == GetScoredCandidates(loaded.table, used, t, FALSE, FALSE)
    IN  IF loaded.raised # "" THEN {Outcome(Raised(loaded.raised), used, today)}
        ELSE IF got.raised # "" THEN {Outcome(Raised(got.raised), used, today)}
        ELSE IF got.pool = <<>> THEN {Outcome(ReturnedNone, used, today)}
        ELSE { Outcome(Returned(PuzzleDict(got.pool[i].candidate, got.pool[i].pqs)),
                       SaveUsedPattern(used, got.pool[i].candidate, got.pool[i].pqs, t).file,
                       today) : i \in 1..Len(got.pool) }

\* the outcomes of generate_random_puzzle, one per random.choice(pool)
GenerateRandomPuzzleCalls(ft, used, today, t) ==
    LET loaded == LoadFeatureTable(ft)
        got == GetScoredCandidates(loaded.table, used, t, FALSE, FALSE)
    IN  IF loaded.raised # "" THEN {Outcome(Raised(loaded.raised), used, today)}
        ELSE IF got.raised # "" THEN {Outcome(Raised(got.raised), used, today)}
        ELSE IF got.pool = <<>> THEN {Outcome(ReturnedNone, used, today)}
        ELSE { Outcome(Returned(PuzzleDict(got.pool[i].candidate, got.pool[i].pqs)),
                       used, today) : i \in 1..Len(got.pool) }

(***************************************************************************)
(* Spec: the engine's operations, one call at a time                       *)
(***************************************************************************)
Procs == 1..NumProcs

\* history entries of earlier runs: how many days before StartDay they were recorded
EarlierRunAges == {NO_REUSE_DAYS, WORD_WINDOW_DAYS}

EarlierRunPatterns == {EntropyHigh, LengthHigh}

\* the logs earlier runs of generate_daily left behind
EarlierLogs ==
    { <<UsedRecord(c, Pqs(c), StartDay - a)>> : c \in EarlierRunPatterns, a \in EarlierRunAges }

NoCall == [op |-> "", kind |-> "", data |-> <<>>]

CallResult(op, ret) == [op |-> op, kind |-> ret.kind, data |-> ret.data]

NoLocals == [table |-> <<>>, pattern |-> <<>>, pqs |-> 0, used |-> <<>>, ret |-> NoCall]

\* The history log may be absent, hold earlier runs' records, or be cut short by a
\* run that died between open(..., "w") and json.dump; today.json likewise.
Init ==
    /\ now = StartDay
    /\ featureTable \in {MissingFile} \cup {OkFile(T) : T \in Tables}
    /\ usedFile \in {MissingFile, CorruptFile} \cup {OkFile(log) : log \in EarlierLogs}
    /\ todayFile \in {MissingFile, CorruptFile}
    /\ result = NoCall
    /\ pc = [p \in Procs |-> "load_today"]
    /\ loc = [p \in Procs |-> NoLocals]
    /\ appended = <<>>
    /\ randomPuzzleCache = <<>>

\* the UTC date changes
Tick ==
    /\ now < StartDay + MaxDays
    /\ now' = now + 1
    /\ result' = NoCall
    /\ UNCHANGED <<files, conc>>

\* python -m daily_game.build_features
BuildFeatures ==
    /\ \E T \in Tables : featureTable' = OkFile(T)
    /\ result' = NoCall
    /\ UNCHANGED <<now, usedFile, todayFile, conc>>

Perform(op, outcome) ==
    /\ result' = CallResult(op, outcome.ret)
    /\ usedFile' = outcome.used
    /\ todayFile' = outcome.today
    /\ UNCHANGED <<now, featureTable, conc>>

GenerateDaily == Perform("generate_daily", GenerateDailyCall(featureTable, usedFile, todayFile, now))

EnsureTodayPuzzle ==
    Perform("ensure_today_puzzle", EnsureTodayPuzzleCall(featureTable, usedFile, todayFile, now))

CallLoadToday == Perform("load_today", Outcome(LoadToday(todayFile, now), usedFile, todayFile))

GenerateRandomPuzzle ==
    \E outcome \in GenerateRandomPuzzleCalls(featureTable, usedFile, todayFile, now) :
        Perform("generate_random_puzzle", outcome)

Next ==
    \/ Tick
    \/ BuildFeatures
    \/ GenerateDaily
    \/ EnsureTodayPuzzle
    \/ CallLoadToday
    \/ GenerateRandomPuzzle

Spec == Init /\ [][Next]_vars

(***************************************************************************)
(* SpecConc: NumProcs requests to /api/today at once.  The endpoint is a   *)
(* plain def, which the server runs on worker threads, so the file reads   *)
(* and writes of ensure_today_puzzle() interleave.  No lock is taken.      *)
(* open(path, "w") empties the file; json.dump then fills it.              *)
(***************************************************************************)
Finish(p, ret) ==
    /\ pc' = [pc EXCEPT ![p] = "done"]
    /\ loc' = [loc EXCEPT ![p].ret = CallResult("ensure_today_puzzle", ret)]

\* data = load_today(); if data is not None: return data
StepLoadToday(p) ==
    /\ pc[p] = "load_today"
    /\ LET data == LoadToday(todayFile, now)
       IN  IF data.kind # "None" THEN Finish(p, data)
           ELSE pc' = [pc EXCEPT ![p] = "load_table"] /\ loc' = loc
    /\ UNCHANGED <<now, files, result, appended, randomPuzzleCache>>

\* generate_daily: load_feature_table(), then lines 103-110 of select_best_pattern
StepLoadTable(p) ==
    /\ pc[p] = "load_table"
    /\ LET loaded == LoadFeatureTable(featureTable)
       IN  IF loaded.raised # "" THEN Finish(p, Raised(loaded.raised))
           ELSE IF RankedPool(loaded.table) = <<>> THEN Finish(p, ReturnedNone)
           ELSE /\ pc' = [pc EXCEPT ![p] = "select"]
                /\ loc' = [loc EXCEPT ![p].table = loaded.table]
    /\ UNCHANGED <<now, files, result, appended, randomPuzzleCache>>

\* lines 112-125 of select_best_pattern: the history is read and the pick made
StepSelect(p) ==
    /\ pc[p] = "select"
    /\ LET used == LoadUsedPatterns(usedFile)
           best == FirstKept(RankedPool(loc[p].table), used.value, now, TRUE, TRUE)
       IN  IF used.raised # "" THEN Finish(p, Raised(used.raised))
           ELSE IF best.kind = "None" THEN Finish(p, ReturnedNone)
           ELSE /\ pc' = [pc EXCEPT ![p] = "save_load"]
                /\ loc' = [loc EXCEPT ![p].pattern = best.pattern, ![p].pqs = best.pqs]
    /\ UNCHANGED <<now, files, result, appended, randomPuzzleCache>>

\* save_used_pattern: used = load_used_patterns(); used.append({...})
StepSaveLoad(p) ==
    /\ pc[p] = "save_load"
    /\ LET saved == SaveUsedPattern(usedFile, loc[p].pattern, loc[p].pqs, now)
       IN  IF saved.raised # "" THEN Finish(p, Raised(saved.raised))
           ELSE /\ pc' = [pc EXCEPT ![p] = "save_open"]
                /\ loc' = [loc EXCEPT ![p].used = saved.file.data]
    /\ UNCHANGED <<now, files, result, appended, randomPuzzleCache>>

\* with open(USED_PATTERNS_PATH, "w") as f:
StepSaveOpen(p) ==
    /\ pc[p] = "save_open"
    /\ usedFile' = CorruptFile
    /\ pc' = [pc EXCEPT ![p] = "save_dump"]
    /\ UNCHANGED <<now, featureTable, todayFile, result, loc, appended, randomPuzzleCache>>

\* json.dump(used, f, indent=2)
StepSaveDump(p) ==
    /\ pc[p] = "save_dump"
    /\ usedFile' = OkFile(loc[p].used)
    /\ appended' = Append(appended, loc[p].used[Len(loc[p].used)])
    /\ pc' = [pc EXCEPT ![p] = "today_open"]
    /\ UNCHANGED <<now, featureTable, todayFile, result, loc, randomPuzzleCache>>

\* _write_today_json: with open(TODAY_JSON_PATH, "w") as f:
StepTodayOpen(p) ==
    /\ pc[p] = "today_open"
    /\ todayFile' = CorruptFile
    /\ pc' = [pc EXCEPT ![p] = "today_dump"]
    /\ UNCHANGED <<now, featureTable, usedFile, result, loc, appended, randomPuzzleCache>>

\* json.dump(payload, f, indent=2), and generate_daily returns its dict
StepTodayDump(p) ==
    /\ pc[p] = "today_dump"
    /\ todayFile' = WriteTodayJson(loc[p].pattern, loc[p].pqs, now)
    /\ Finish(p, Returned(DailyDict(loc[p].pattern, loc[p].pqs, now)))
    /\ UNCHANGED <<now, featureTable, usedFile, result, appended, randomPuzzleCache>>

NextConc ==
    \E p \in Procs :
        \/ StepLoadToday(p)
        \/ StepLoadTable(p)
        \/ StepSelect(p)
        \/ StepSaveLoad(p)
        \/ StepSaveOpen(p)
        \/ StepSaveDump(p)
        \/ StepTodayOpen(p)
        \/ StepTodayDump(p)

SpecConc == Init /\ [][NextConc]_vars

(***************************************************************************)
(* Vocabulary of the properties: dates by day arithmetic, signatures by    *)
(* their four components, word use by entries                              *)
(***************************************************************************)
Days == 0..(StartDay + MaxDays)

\* the day a date string names
DayOfDate(s) == CHOOSE d \in Days : Strftime(d) = s

AgeInDays(entry, t) == t - DayOfDate(entry.date)

DatedWithin(entry, t, days) == AgeInDays(entry, t) \in 0..days

RuleSignature(x) == <<x.template_id, x.metric_a, x.metric_b, x.constraint_desc>>

\* the entries of a history log file (a missing file is an empty log)
LogOf(file) == IF file.state = "ok" THEN file.data ELSE <<>>

Last(s) == s[Len(s)]

Contains(words, w) == \E k \in 1..Len(words) : words[k] = w

\* in how many entries of the last `days` days the word appears
EntriesUsing(log, w, t, days) ==
    Cardinality({ i \in 1..Len(log) : DatedWithin(log[i], t, days) /\ Contains(log[i].words, w) })

SignatureUsedWithin(log, x, t, days) ==
    \E i \in 1..Len(log) : DatedWithin(log[i], t, days) /\ RuleSignature(log[i]) = RuleSignature(x)

DailyReturnsPuzzle == result'.op = "generate_daily" /\ result'.kind = "puzzle"

\* the record the step appended to the history log
NewRecord == Last(LogOf(usedFile'))

IsPrefix(s, t) == Len(s) <= Len(t) /\ SubSeq(t, 1, Len(s)) = s

(***************************************************************************)
(* C1: generate_daily() never selects a candidate whose rule signature     *)
(* (template id, primary metric, secondary metric, constraint) is that of  *)
(* a history entry dated within the last 30 days.                          *)
(***************************************************************************)
C1_RecentSignatureNeverSelected ==
    [][ DailyReturnsPuzzle =>
          /\ NewRecord.words = result'.data.words
          /\ ~SignatureUsedWithin(LogOf(usedFile), NewRecord, now, 30) ]_vars

\* generate_daily passed over the top-ranked candidate, whose signature an entry of
\* the last 30 days carries, and returned another one
C1_Witness ==
    /\ result.op = "generate_daily" /\ result.kind = "puzzle"
    /\ featureTable.state = "ok"
    /\ LET log == LogOf(usedFile)
           top == RankedPool(featureTable.data)[1].candidate
       IN  /\ Len(log) >= 2
           /\ SignatureUsedWithin(SubSeq(log, 1, Len(log) - 1), top, now, 30)
           /\ RuleSignature(Last(log)) # RuleSignature(top)
           /\ Last(log).words = result.data.words

(***************************************************************************)
(* C2: no candidate newly selected by generate_daily() contains a word     *)
(* that appears in 2 or more history entries of the last 31 days; a word   *)
(* in at most 1 such entry does not exclude a candidate: when some ranked  *)
(* candidate has no recent signature and no word used twice, the call      *)
(* returns a puzzle.                                                       *)
(***************************************************************************)
C2_OverusedWordNeverSelected ==
    [][ /\ DailyReturnsPuzzle =>
             \A k \in 1..Len(NewRecord.words) :
                 EntriesUsing(LogOf(usedFile), NewRecord.words[k], now, 31) < 2
        /\ ( /\ result'.op = "generate_daily"
             /\ featureTable.state = "ok"
             /\ usedFile.state # "corrupt"
             /\ \E i \in 1..Len(RankedPool(featureTable.data)) :
                    LET c == RankedPool(featureTable.data)[i].candidate
                    IN  /\ ~SignatureUsedWithin(LogOf(usedFile), c, now, 30)
                        /\ \A k \in 1..Len(c.words) :
                               EntriesUsing(LogOf(usedFile), c.words[k], now, 31) <= 1 )
           => result'.kind = "puzzle" ]_vars

\* a puzzle was selected although one of its words was already in one entry of the
\* last 31 days, and a word of the log is now in two of them
C2_Witness ==
    /\ result.op = "generate_daily" /\ result.kind = "puzzle"
    /\ LET log == LogOf(usedFile)
       IN  /\ Len(log) >= 2
           /\ \E k \in 1..Len(Last(log).words) :
                  EntriesUsing(log, Last(log).words[k], now, 31) = 2

(***************************************************************************)
(* C3: generate_random_puzzle() leaves the history log and the today       *)
(* record as they were, whether it returns a puzzle or None.               *)
(***************************************************************************)
C3_RandomNeverPersists ==
    [][ result'.op = "generate_random_puzzle"
          => usedFile' = usedFile /\ todayFile' = todayFile ]_vars

\* a random puzzle was returned whose signature the log holds within the window
C3_Witness ==
    /\ result.op = "generate_random_puzzle" /\ result.kind = "puzzle"
    /\ usedFile.state = "ok"
    /\ \E i \in 1..Len(usedFile.data) :
           /\ DatedWithin(usedFile.data[i], now, 30)
           /\ usedFile.data[i].words = result.data.words

(***************************************************************************)
(* C4 as stated: a generate_daily() call that follows, on the same date,   *)
(* a generate_daily() call that returned a puzzle returns that same puzzle *)
(* (words, rule, hints) and leaves the history log as it was.              *)
(***************************************************************************)
SamePuzzle(a, b) == a.words = b.words /\ a.rule = b.rule /\ a.hints = b.hints

C4_SecondDailyCallReturnsStored ==
    [][ ( /\ result.op = "generate_daily" /\ result.kind = "puzzle"
          /\ result'.op = "generate_daily"
          /\ now' = now )
          => /\ result'.kind = "puzzle"
             /\ SamePuzzle(result'.data, result.data)
             /\ usedFile' = usedFile ]_vars

(***************************************************************************)
(* C4 amended: a generate_daily() call that returns a puzzle stores it in  *)
(* the today record under today's date, and an ensure_today_puzzle() call  *)
(* made while the today record carries today's date returns that stored    *)
(* record (same words, rule, hints) and leaves the history log and the     *)
(* today record as they were.                                              *)
(***************************************************************************)
TodayRecordIsCurrent == todayFile.state = "ok" /\ DayOfDate(todayFile.data.date) = now

C4_EnsureReturnsStored ==
    [][ /\ DailyReturnsPuzzle =>
             /\ todayFile'.state = "ok"
             /\ DayOfDate(todayFile'.data.date) = now
             /\ SamePuzzle(todayFile'.data, result'.data)
        /\ (result'.op = "ensure_today_puzzle" /\ TodayRecordIsCurrent) =>
             /\ result'.kind = "puzzle"
             /\ result'.data = todayFile.data
             /\ usedFile' = usedFile
             /\ todayFile' = todayFile ]_vars

\* ensure_today_puzzle served the record an earlier call of the day had stored:
\* the payload is today.json's (it has no template_id) and the log holds its words
C4_Witness ==
    /\ result.op = "ensure_today_puzzle" /\ result.kind = "puzzle"
    /\ "template_id" \notin DOMAIN result.data
    /\ result.data = todayFile.data
    /\ LogOf(usedFile) # <<>>
    /\ Last(LogOf(usedFile)).words = result.data.words
    /\ DayOfDate(Last(LogOf(usedFile)).date) = now

(***************************************************************************)
(* C6: the history log is append-only: across every operation the log      *)
(* before it is a prefix of the log after it, and a readable log stays     *)
(* readable.                                                               *)
(***************************************************************************)
C6_LogIsAppendOnly ==
    [][ /\ IsPrefix(LogOf(usedFile), LogOf(usedFile'))
        /\ usedFile.state = "ok" => usedFile'.state = "ok"
        /\ usedFile.state = "corrupt" => usedFile' = usedFile ]_vars

\* a daily pick was appended behind the record an earlier run had left
C6_Witness ==
    /\ result.op \in {"generate_daily", "ensure_today_puzzle"} /\ result.kind = "puzzle"
    /\ Len(LogOf(usedFile)) >= 3
    /\ \E log \in EarlierLogs : IsPrefix(log, LogOf(usedFile))

(***************************************************************************)
(* C7: load_today() returns the persisted record exactly when the record   *)
(* is readable and its date is today's UTC date, and None otherwise; it    *)
(* writes nothing.  When the record is not current, ensure_today_puzzle()  *)
(* never serves it: a puzzle it returns is dated today and was appended to *)
(* the history log by that call.                                           *)
(***************************************************************************)
C7_LoadTodayKeyedByDate ==
    [][ /\ result'.op = "load_today" =>
             /\ result'.kind = (IF TodayRecordIsCurrent THEN "puzzle" ELSE "None")
             /\ result'.kind = "puzzle" => result'.data = todayFile.data
             /\ usedFile' = usedFile /\ todayFile' = todayFile
        /\ (result'.op = "ensure_today_puzzle" /\ ~TodayRecordIsCurrent
                /\ result'.kind = "puzzle") =>
             /\ DayOfDate(result'.data.date) = now
             /\ Len(LogOf(usedFile')) = Len(LogOf(usedFile)) + 1
             /\ NewRecord.words = result'.data.words
             /\ TodayRecordIsCurrent' ]_vars

\* load_today answered None although today.json holds a record: it is yesterday's
C7_Witness ==
    /\ result.op = "load_today" /\ result.kind = "None"
    /\ todayFile.state = "ok"
    /\ DayOfDate(todayFile.data.date) = now - 1

(***************************************************************************)
(* C8 as stated: with a corrupt or unreadable history log, generate_daily  *)
(* and generate_random_puzzle do not fail; they answer as they would on an *)
(* empty history.                                                          *)
(***************************************************************************)
C8_CorruptLogReadAsEmpty ==
    [][ ( /\ usedFile.state = "corrupt"
          /\ result'.op \in {"generate_daily", "generate_random_puzzle"}
          /\ featureTable.state = "ok" )
          => /\ result'.kind \in {"puzzle", "None"}
             /\ result'.op = "generate_daily" =>
                  result'.kind = GenerateDailyCall(featureTable, MissingFile, todayFile, now).ret.kind
      ]_vars

(***************************************************************************)
(* C9: with the feature table missing, generate_daily() and                *)
(* generate_random_puzzle() raise FileNotFoundError, which is not the None *)
(* of "no eligible candidate", and change neither the history log nor the  *)
(* today record; with the table present they never raise it.               *)
(***************************************************************************)
C9_MissingTableIsDistinct ==
    [][ result'.op \in {"generate_daily", "generate_random_puzzle"} =>
          /\ featureTable.state = "missing" =>
               /\ result'.kind = "FileNotFoundError"
               /\ result'.kind # ReturnedNone.kind
               /\ usedFile' = usedFile /\ todayFile' = todayFile
          /\ featureTable.state # "missing" => result'.kind # "FileNotFoundError" ]_vars

\* generate_daily raised FileNotFoundError over a history log that holds a record
C9_Witness ==
    /\ result.op = "generate_daily" /\ result.kind = "FileNotFoundError"
    /\ featureTable.state = "missing"
    /\ LogOf(usedFile) # <<>>

(***************************************************************************)
(* C10: when no candidate passes the PQS/word-count filters, or every      *)
(* candidate that passes has a signature used in the last 30 days or a     *)
(* word used in 2 or more entries of the last 31 days, generate_daily()    *)
(* returns None, appends nothing and leaves the today record alone.        *)
(***************************************************************************)
PassesFilters(c) == c.score >= 700 /\ Len(c.words) >= 4 /\ Len(c.words) <= 10

ExcludedByRecency(c, log, t) ==
    \/ SignatureUsedWithin(log, c, t, 30)
    \/ \E k \in 1..Len(c.words) : EntriesUsing(log, c.words[k], t, 31) >= 2

NothingEligible ==
    /\ featureTable.state = "ok"
    /\ \/ \A i \in 1..Len(featureTable.data) : ~PassesFilters(featureTable.data[i])
       \/ /\ usedFile.state # "corrupt"
          /\ \A i \in 1..Len(featureTable.data) :
                 PassesFilters(featureTable.data[i])
                     => ExcludedByRecency(featureTable.data[i], LogOf(usedFile), now)

C10_NothingEligibleGivesNone ==
    [][ (result'.op = "generate_daily" /\ NothingEligible)
          => /\ result'.kind = "None"
             /\ usedFile' = usedFile
             /\ todayFile' = todayFile ]_vars

\* generate_daily returned None on a table with candidates that pass the filters,
\* all of them excluded by the history of the last days
C10_Witness ==
    /\ result.op = "generate_daily" /\ result.kind = "None"
    /\ NothingEligible
    /\ \E i \in 1..Len(featureTable.data) : PassesFilters(featureTable.data[i])
    /\ todayFile.state = "ok"

(***************************************************************************)
(* C5 as stated: when daily-generation requests run concurrently, every    *)
(* record a completed request appended to the history log is in the final  *)
(* log: none is overwritten or lost by another request's read-modify-write.*)
(***************************************************************************)
AllDone == \A p \in Procs : pc[p] = "done"

InLog(record) == \E i \in 1..Len(LogOf(usedFile)) : LogOf(usedFile)[i] = record

C5_NoAppendIsLost ==
    AllDone => \A i \in 1..Len(appended) : InLog(appended[i])

(***************************************************************************)
(* C11: every generate_daily() run that returns a puzzle (called directly, *)
(* or by ensure_today_puzzle() when the today record is not current)       *)
(* appends exactly one record to the history log, carrying today's date    *)
(* and the template id, metrics, constraint, words and score of one        *)
(* candidate of the table, and leaves a today record holding that same     *)
(* candidate under today's date; no other step changes the history log or  *)
(* the today record.                                                       *)
(***************************************************************************)
DailyRan ==
    \/ result'.op = "generate_daily"
    \/ result'.op = "ensure_today_puzzle" /\ ~TodayRecordIsCurrent

RecordsCandidate(record, c) ==
    /\ RuleSignature(record) = RuleSignature(c)
    /\ record.words = c.words
    /\ record.rule = c.rule_description
    /\ record.pqs = c.score

C11_DailyPickIsTheOnlyWrite ==
    [][ /\ (DailyRan /\ result'.kind = "puzzle") =>
             /\ usedFile'.state = "ok" /\ todayFile'.state = "ok"
             /\ Len(LogOf(usedFile')) = Len(LogOf(usedFile)) + 1
             /\ LogOf(usedFile') = Append(LogOf(usedFile), NewRecord)
             /\ DayOfDate(NewRecord.date) = now
             /\ DayOfDate(todayFile'.data.date) = now
             /\ \E i \in 1..Len(featureTable.data) :
                    LET c == featureTable.data[i]
                    IN  /\ RecordsCandidate(NewRecord, c)
                        /\ todayFile'.data.words = c.words
                        /\ todayFile'.data.rule = c.rule_description
                        /\ todayFile'.data.metric_a = c.metric_a
                        /\ result'.data.words = c.words
        /\ (usedFile' # usedFile \/ todayFile' # todayFile)
              => DailyRan /\ result'.kind = "puzzle" ]_vars

\* a daily pick was appended to a log that already held an entry, and the today
\* record holds the words of that last entry under today's date
C11_Witness ==
    /\ result.op \in {"generate_daily", "ensure_today_puzzle"} /\ result.kind = "puzzle"
    /\ Len(LogOf(usedFile)) >= 2
    /\ DayOfDate(Last(LogOf(usedFile)).date) = now
    /\ todayFile.state = "ok"
    /\ todayFile.data.words = Last(LogOf(usedFile)).words
    /\ DayOfDate(todayFile.data.date) = now

(***************************************************************************)
(* C12 as stated: whatever the history log holds, generate_random_puzzle() *)
(* on a given table draws from all the candidates that pass the PQS and    *)
(* word-count filters: it returns one of them when there is one, and None  *)
(* only when there is none.                                                *)
(***************************************************************************)
PassingCandidates(table) == { i \in 1..Len(table) : PassesFilters(table[i]) }

C12_RandomPoolIgnoresHistory ==
    [][ (result'.op = "generate_random_puzzle" /\ featureTable.state = "ok") =>
          IF PassingCandidates(featureTable.data) = {}
          THEN result'.kind = "None"
          ELSE /\ result'.kind = "puzzle"
               /\ \E i \in PassingCandidates(featureTable.data) :
                      /\ result'.data.words = featureTable.data[i].words
                      /\ result'.data.rule = featureTable.data[i].rule_description ]_vars

(***************************************************************************)
(* C13: when generate_daily() returns a puzzle, the candidate it recorded  *)
(* is not excluded by the recent-signature or the overused-word filter,    *)
(* and every candidate that passes the PQS/word-count filters with a       *)
(* higher score is excluded by one of the two; when it returns None on a   *)
(* readable log, every candidate that passes the filters is excluded.      *)
(***************************************************************************)
C13_PickIsFirstSurvivor ==
    [][ /\ DailyReturnsPuzzle =>
             \E i \in PassingCandidates(featureTable.data) :
                 LET c == featureTable.data[i]
                 IN  /\ RecordsCandidate(NewRecord, c)
                     /\ ~ExcludedByRecency(c, LogOf(usedFile), now)
                     /\ \A j \in PassingCandidates(featureTable.data) :
                            featureTable.data[j].score > c.score
                                => ExcludedByRecency(featureTable.data[j], LogOf(usedFile), now)
        /\ (result'.op = "generate_daily" /\ result'.kind = "None") =>
             \A j \in PassingCandidates(featureTable.data) :
                 ExcludedByRecency(featureTable.data[j], LogOf(usedFile), now) ]_vars

\* generate_daily returned a candidate that is neither the best nor the worst of
\* those passing the filters: a better one was excluded and a worse one was free
C13_Witness ==
    /\ result.op = "generate_daily" /\ result.kind = "puzzle"
    /\ featureTable.state = "ok"
    /\ LET log == LogOf(usedFile)
           before == SubSeq(log, 1, Len(log) - 1)
       IN  /\ Len(log) >= 1
           /\ \E i, j, k \in PassingCandidates(featureTable.data) :
                  /\ RecordsCandidate(Last(log), featureTable.data[i])
                  /\ featureTable.data[j].score > featureTable.data[i].score
                  /\ ExcludedByRecency(featureTable.data[j], before, now)
                  /\ featureTable.data[k].score < featureTable.data[i].score
                  /\ ~ExcludedByRecency(featureTable.data[k], before, now)

(***************************************************************************)
(* C15 as stated: a generate_daily() call that follows, on the same date   *)
(* and table, a generate_daily() call whose pick was recorded selects the  *)
(* same candidate again.                                                   *)
(***************************************************************************)
RegeneratedAfterRecording ==
    /\ result.op = "generate_daily" /\ result.kind = "puzzle"
    /\ result'.op = "generate_daily"
    /\ now' = now /\ featureTable' = featureTable

MaxCandidates == 2

RankWordCounts == {3, 4, 10, 11, 12, 13}

RankScores == {MIN_PQS - 1, MIN_PQS, MIN_PQS + 1}

WordPool ==
    <<"kayak", "level", "civic", "radar", "zebra", "waltz", "glyph",
      "quilt", "fjord", "nymph", "crypt", "rhythm", "sphinx">>

RankCandidate(n, score) ==
    Candidate(SubSeq(WordPool, 1, n), "highest", "extreme_outliers", "length", None,
              "length>=5", score)

RankCandidates == { RankCandidate(n, s) : n \in RankWordCounts, s \in RankScores }

CandidateLists ==
    UNION { [1..k -> RankCandidates] : k \in 1..MaxCandidates }

\* the other variables of the module while a pure function is applied
Idle ==
    /\ now = StartDay
    /\ usedFile = MissingFile
    /\ todayFile = MissingFile
    /\ pc = [p \in Procs |-> "done"]
    /\ loc = [p \in Procs |-> NoLocals]
    /\ appended = <<>>
    /\ randomPuzzleCache = <<>>

InitRank ==
    /\ featureTable \in { OkFile(cands) : cands \in CandidateLists }
    /\ result = NoCall
    /\ Idle

\* scored = filter_and_rank(candidates, table, min_pqs=MIN_PQS, min_words=4, max_words=10)
CallFilterAndRank ==
    /\ result' = [op |-> "filter_and_rank", kind |-> "list",
                  data |-> FilterAndRank(featureTable.data, MIN_PQS, MIN_WORDS, MAX_WORDS)]
    /\ UNCHANGED <<now, files, conc>>

NextRank == CallFilterAndRank

SpecRank == InitRank /\ [][NextRank]_vars

\* candidate c is in the ranked list
Survives(c, ranked) == \E j \in 1..Len(ranked) : ranked[j].candidate = c

Ranked == result.op = "filter_and_rank"

DescendingByPqs(ranked) == \A j \in 1..(Len(ranked) - 1) : ranked[j].pqs >= ranked[j + 1].pqs

HintMetrics == MetricHintKeys \cup {None, "", "syllable_count"}

HintTemplates == {"extreme_outliers", "constrained_extremes", "ratio_anomaly"}

HintDirections == {"highest", "lowest", "very high", "unusually high"}

HintPatterns ==
    { Candidate(SubSeq(WordPool, 1, MIN_WORDS), d, tid, m, None, None, MIN_PQS) :
        d \in HintDirections, tid \in HintTemplates, m \in HintMetrics }

InitHints ==
    /\ featureTable \in { OkFile(<<p>>) : p \in HintPatterns }
    /\ result = NoCall
    /\ Idle

\* hints = generate_hints(pattern)
CallGenerateHints ==
    /\ result' = [op |-> "generate_hints", kind |-> "list",
                  data |-> GenerateHints(featureTable.data[1])]
    /\ UNCHANGED <<now, files, conc>>

NextHints == CallGenerateHints

SpecHints == InitHints /\ [][NextHints]_vars

(***************************************************************************)
(* C20: generate_hints returns exactly 3 hints for every pattern, the      *)
(* first, second and third hint of one metric's table entry: the entry of  *)
(* the pattern's primary metric when it is a key of the hint table, and    *)
(* the entropy entry when the metric is None or not a key.                 *)
(***************************************************************************)
C20_AlwaysThreeHints ==
    result.op = "generate_hints" =>
        LET p == featureTable.data[1]
            entry == IF p.metric_a \in MetricHintKeys THEN p.metric_a ELSE "entropy"
        IN  /\ Len(result.data) = 3
            /\ \A k \in 1..3 : result.data[k].topic = entry /\ result.data[k].level = k

\* hints were produced for a pattern whose metric the hint table does not hold
C20_Witness ==
    /\ result.op = "generate_hints"
    /\ featureTable.data[1].metric_a = "syllable_count"
    /\ Len(result.data) = 3
    /\ result.data[3].topic = "entropy"

(***************************************************************************)
(* The templates of patterns.py on tables of rows.  A row is a word with   *)
(* its feature values; a value is an integer (entropy in tenths of a bit)  *)
(* or NaN.  A percentile is given in tenths of a percent, and              *)
(* PercentileValue is 1000 times what np.nanpercentile returns, so that    *)
(* col >= thresh is an exact integer comparison.                           *)
(***************************************************************************)
\* a value no feature takes stands for NaN; every comparison is guarded by IsFinite
NaN == -1

IsFinite(v) == v # NaN

PScale == 1000

PERCENTILE_HIGH == 999

PERCENTILE_LOW == 1

PERCENTILE_CONSTRAINED == 990

PERCENTILE_RATIO == 990

MIN_WORD_LENGTH == 5

MAX_WORD_LENGTH == 18

MAX_CANDIDATES == 8

MIN_PASSING == 4

MIN_VALID_EXTREME == 20

MIN_MASK_CONSTRAINED == 30

MIN_VALID_CONSTRAINED == 10

MIN_MASK_RATIO == 50

MIN_VALID_RATIO == 20

CONSTRAINT_MIN == 6

\* the indices 1..n in increasing order: np.where(mask)[0] is the selection of those
\* that satisfy the mask
Indices(n) == [i \in 1..n |-> i]

\* the k-th smallest element of vals, k counted from 0
OrderStat(vals, k) ==
    CHOOSE v \in { vals[j] : j \in 1..Len(vals) } :
        /\ Cardinality({ j \in 1..Len(vals) : vals[j] < v }) <= k
        /\ Cardinality({ j \in 1..Len(vals) : vals[j] <= v }) > k

\* np.nanpercentile(arr, p) on finite values, linear interpolation between the two
\* order statistics around position (n - 1) * p / 100
PercentileValue(arr, p) ==
    LET n == Len(arr)
        pos == (n - 1) * p
        lo == pos \div PScale
        hi == Min(lo + 1, n - 1)
        frac == pos % PScale
    IN  PScale * OrderStat(arr, lo) + frac * (OrderStat(arr, hi) - OrderStat(arr, lo))

\* faulty variant: positions are rounded to the nearest integer instead of truncated
SubsampleRounded(idx, max_candidates) ==
    IF Len(idx) > max_candidates
    THEN [i \in 1..max_candidates |-> idx[((2 * (i - 1) * Len(idx) + max_candidates) \div (2 * max_candidates)) + 1]]
    ELSE idx

\* faulty variant: the first max_candidates passing rows are kept (idx[:max_candidates])
SubsampleHead(idx, max_candidates) == SubSeq(idx, 1, Min(Len(idx), max_candidates))

\* faulty variant: every passing row is kept
SubsampleKeepsAll(idx, max_candidates) == idx

\* idx[[int(i * step) for i in range(max_candidates)]] with step = len(idx) / max_candidates
Subsample(idx, max_candidates) ==
    IF Len(idx) > max_candidates
    THEN [i \in 1..max_candidates |-> idx[(((i - 1) * Len(idx)) \div max_candidates) + 1]]
    ELSE idx

\* [str(w) for w in table["word"][idx]]
WordsAt(table, idx) == [k \in 1..Len(idx) |-> table[idx[k]].word]

Pattern(words, direction, template_id, metric_a, metric_b, percentile_used, constraint_desc) ==
    [ words |-> words,
      rule_description |-> [direction |-> direction, metric |-> metric_a],
      template_id |-> template_id,
      metric_a |-> metric_a,
      metric_b |-> metric_b,
      percentile_used |-> percentile_used,
      constraint_desc |-> constraint_desc ]

\* mask_len = (length_col >= min_word_length) & (length_col <= 18)
MaskLen(row, min_word_length) ==
    row.length >= min_word_length /\ row.length <= MAX_WORD_LENGTH

\* faulty variant: idx = np.where(col >= thresh)[0], without the valid mask
ExtremeOfMetricUnmasked(table, metric, percentile, min_word_length, max_candidates, use_high) ==
    LET valid == SelectSeq(Indices(Len(table)), LAMBDA i : IsFinite(table[i][metric]) /\ MaskLen(table[i], min_word_length))
        vals == [k \in 1..Len(valid) |-> table[valid[k]][metric]]
        thresh == PercentileValue(vals, percentile)
        idx == SelectSeq(Indices(Len(table)), LAMBDA i : IF use_high THEN table[i][metric] * PScale >= thresh
                                    ELSE table[i][metric] * PScale <= thresh)
    IN  IF Len(valid) < MIN_VALID_EXTREME THEN <<>>
        ELSE IF Len(idx) < MIN_PASSING THEN <<>>
        ELSE << Pattern(WordsAt(table, Subsample(idx, max_candidates)),
                        IF use_high THEN "highest" ELSE "lowest",
                        "extreme_outliers", metric, None, percentile,
                        <<"length>=", min_word_length>>) >>

\* the body of the loop of template_extreme_outliers for one metric:
\* the candidates it appends (none or one)
ExtremeOfMetric(table, metric, percentile, min_word_length, max_candidates, use_high) ==
    LET valid == SelectSeq(Indices(Len(table)), LAMBDA i : IsFinite(table[i][metric]) /\ MaskLen(table[i], min_word_length))
        vals == [k \in 1..Len(valid) |-> table[valid[k]][metric]]
        thresh == PercentileValue(vals, percentile)
        idx == SelectSeq(valid, LAMBDA i : IF use_high THEN table[i][metric] * PScale >= thresh
                                    ELSE table[i][metric] * PScale <= thresh)
    IN  IF Len(valid) < MIN_VALID_EXTREME THEN <<>>
        ELSE IF Len(idx) < MIN_PASSING THEN <<>>
        ELSE << Pattern(WordsAt(table, Subsample(idx, max_candidates)),
                        IF use_high THEN "highest" ELSE "lowest",
                        "extreme_outliers", metric, None, percentile,
                        <<"length>=", min_word_length>>) >>

RECURSIVE TemplateExtremeOutliers(_, _, _, _, _, _, _)
TemplateExtremeOutliers(table, feature_names, percentile_high, percentile_low, min_word_length, max_candidates, use_high) ==
    IF feature_names = <<>> THEN <<>>
    ELSE (IF Head(feature_names) = "word" THEN <<>>
          ELSE ExtremeOfMetric(table, Head(feature_names),
                               IF use_high THEN percentile_high ELSE percentile_low,
                               min_word_length, max_candidates, use_high))
         \o TemplateExtremeOutliers(table, Tail(feature_names), percentile_high,
                                    percentile_low, min_word_length, max_candidates, use_high)

\* the body of the loop of template_constrained_extremes for one metric, on sub_table
ConstrainedOfMetric(sub_table, metric, constraint_metric, constraint_min, percentile, max_candidates) ==
    LET valid == SelectSeq(Indices(Len(sub_table)), LAMBDA i : IsFinite(sub_table[i][metric]))
        vals == [k \in 1..Len(valid) |-> sub_table[valid[k]][metric]]
        thresh == PercentileValue(vals, percentile)
        idx == SelectSeq(valid, LAMBDA i : sub_table[i][metric] * PScale >= thresh)
    IN  IF Len(valid) < MIN_VALID_CONSTRAINED THEN <<>>
        ELSE IF Len(idx) < MIN_PASSING THEN <<>>
        ELSE << Pattern(WordsAt(sub_table, Subsample(idx, max_candidates)),
                        "very high", "constrained_extremes", metric, constraint_metric,
                        percentile, <<constraint_metric, ">=", constraint_min>>) >>

RECURSIVE ConstrainedLoop(_, _, _, _, _, _)
ConstrainedLoop(sub_table, feature_names, constraint_metric, constraint_min, percentile, max_candidates) ==
    IF feature_names = <<>> THEN <<>>
    ELSE (IF Head(feature_names) \in {"word", constraint_metric} THEN <<>>
          ELSE ConstrainedOfMetric(sub_table, Head(feature_names), constraint_metric,
                                   constraint_min, percentile, max_candidates))
         \o ConstrainedLoop(sub_table, Tail(feature_names), constraint_metric,
                            constraint_min, percentile, max_candidates)

\* faulty variant: the extremes are taken over the whole table, not over the rows
\* satisfying the side constraint
TemplateConstrainedUnmasked(table, feature_names, constraint_metric, constraint_min, percentile, min_word_length, max_candidates) ==
    ConstrainedLoop(table, feature_names, constraint_metric, constraint_min, percentile, max_candidates)

TemplateConstrainedExtremes(table, feature_names, constraint_metric, constraint_min, percentile, min_word_length, max_candidates) ==
    LET mask(row) == /\ row[constraint_metric] >= constraint_min
                     /\ MaskLen(row, min_word_length)
        sub_table == SelectSeq(table, mask)
    IN  IF Len(sub_table) < MIN_MASK_CONSTRAINED THEN <<>>
        ELSE ConstrainedLoop(sub_table, feature_names, constraint_metric, constraint_min,
                             percentile, max_candidates)

RECURSIVE SumSeq(_)
SumSeq(s) == IF s = <<>> THEN 0 ELSE Head(s) + SumSeq(Tail(s))

\* n * n times the variance np.nanstd squares: 0 exactly when _z_scores returns zeros
ScaledVariance(vals) ==
    Len(vals) * SumSeq([k \in 1..Len(vals) |-> vals[k] * vals[k]]) - SumSeq(vals) * SumSeq(vals)

\* za - zb of one row >= za - zb of another, for rows whose values differ by dx in
\* metric_a and by dy in metric_b: dx / std_a >= dy / std_b, decided on the squares;
\* a column of zero deviation contributes z-scores of 0
ComboGeq(dx, dy, var_a, var_b) ==
    LET x == IF var_a = 0 THEN 0 ELSE dx
        y == IF var_b = 0 THEN 0 ELSE dy
    IN  IF x >= 0 /\ y <= 0 THEN TRUE
        ELSE IF x <= 0 /\ y >= 0 THEN FALSE
        ELSE IF x > 0 THEN x * x * var_b >= y * y * var_a
        ELSE x * x * var_b <= y * y * var_a

\* the body of the loop of template_ratio_anomalies for one pair (ma, mb).
\* thresh is interpolated between the two order statistics of combo around position
\* 0.99 * (n - 1); a combo value is >= thresh exactly when it is >= the upper of the
\* two, or the lower one when the position is whole.
RatioOfPair(table, ma, mb, min_word_length, max_candidates) ==
    LET valid == SelectSeq(Indices(Len(table)), LAMBDA i : MaskLen(table[i], min_word_length) /\ IsFinite(table[i][ma]) /\ IsFinite(table[i][mb]))
        n == Len(valid)
        var_a == ScaledVariance([k \in 1..n |-> table[valid[k]][ma]])
        var_b == ScaledVariance([k \in 1..n |-> table[valid[k]][mb]])
        Geq(i, j) == ComboGeq(table[i][ma] - table[j][ma], table[i][mb] - table[j][mb],
                              var_a, var_b)
        AtRank(k) == CHOOSE r \in 1..n :
                         /\ Cardinality({ j \in 1..n : ~Geq(valid[j], valid[r]) }) <= k
                         /\ Cardinality({ j \in 1..n : Geq(valid[r], valid[j]) }) > k
        pos == (n - 1) * PERCENTILE_RATIO
        lo == pos \div PScale
        hi == Min(lo + 1, n - 1)
        at == IF pos % PScale = 0 THEN valid[AtRank(lo)] ELSE valid[AtRank(hi)]
        idx_full == SelectSeq(valid, LAMBDA i : Geq(i, at))
    IN  IF n < MIN_VALID_RATIO THEN <<>>
        ELSE IF Len(idx_full) < MIN_PASSING THEN <<>>
        ELSE << Pattern(WordsAt(table, Subsample(idx_full, max_candidates)),
                        "unusually high", "ratio_anomaly", ma, mb, PERCENTILE_RATIO, None) >>

\* the pairs of template_ratio_anomalies
RatioPairs ==
    << <<"length", "unique_letters">>, <<"length", "entropy">>,
       <<"length", "max_letter_frequency">>, <<"entropy", "length">>,
       <<"vowel_ratio", "consonant_runs">> >>

RECURSIVE RatioLoop(_, _, _, _, _)
RatioLoop(table, pairs, available, min_word_length, max_candidates) ==
    IF pairs = <<>> THEN <<>>
    ELSE (IF Head(pairs)[1] \notin available \/ Head(pairs)[2] \notin available THEN <<>>
          ELSE RatioOfPair(table, Head(pairs)[1], Head(pairs)[2], min_word_length,
                           max_candidates))
         \o RatioLoop(table, Tail(pairs), available, min_word_length, max_candidates)

TemplateRatioAnomalies(table, feature_names, min_word_length, max_candidates) ==
    LET masked == SelectSeq(table, LAMBDA row : MaskLen(row, min_word_length))
        available == { feature_names[k] : k \in 1..Len(feature_names) }
    IN  IF Len(masked) < MIN_MASK_RATIO THEN <<>>
        ELSE RatioLoop(table, RatioPairs, available, min_word_length, max_candidates)

\* run_all_templates on a table of rows: four template runs with the templates'
\* default arguments, each cut to max_per_template
RunAllTemplatesOnRows(table, feature_names, max_per_template) ==
    Take(TemplateExtremeOutliers(table, feature_names, PERCENTILE_HIGH, PERCENTILE_LOW,
                                 MIN_WORD_LENGTH, MAX_CANDIDATES, TRUE), max_per_template)
    \o Take(TemplateExtremeOutliers(table, feature_names, PERCENTILE_HIGH, PERCENTILE_LOW,
                                    MIN_WORD_LENGTH, MAX_CANDIDATES, FALSE), max_per_template)
    \o Take(TemplateConstrainedExtremes(table, feature_names, "unique_letters", CONSTRAINT_MIN,
                                        PERCENTILE_CONSTRAINED, MIN_WORD_LENGTH,
                                        MAX_CANDIDATES), max_per_template)
    \o Take(TemplateRatioAnomalies(table, feature_names, MIN_WORD_LENGTH, MAX_CANDIDATES),
            max_per_template)

(***************************************************************************)
(* SpecTemplates: the templates and run_all_templates applied to tables of *)
(* rows.  The tables have 19 to 80 rows, on both sides of the row counts   *)
(* the templates require; lengths run through a cycle of values in 4..19,  *)
(* unique_letters through 4..8 (never above the length) and entropy        *)
(* through 1.0..1.6 bits, in table orders that are not the metric order; a *)
(* table may hold rows without an entropy value.  All percentile positions *)
(* are fractional for these sizes except at 25, 50 and 75 percent, which   *)
(* binary floating point represents exactly.                               *)
(***************************************************************************)
FeatureNames == <<"length", "unique_letters", "entropy">>

TableSizes == {19, 24, 36, 60, 80}

\* the lengths of eight consecutive rows: 4 and 19 are outside [5, 18]
LengthCycle == <<4, 7, 9, 12, 18, 19, 6, 11>>

LetterCycle == <<4, 6, 7, 8>>

LengthStrides == {1, 3}

LetterStrides == {1, 3}

EntropyStrides == {1, 3}

NanPeriods == {0, 7}

RowAt(i, ls, us, es, nan) ==
    LET len == LengthCycle[((i * ls) % 8) + 1]
    IN  [ word |-> "w" \o ToString(i),
          length |-> len,
          unique_letters |-> Min(len, LetterCycle[((i * us) % 4) + 1]),
          entropy |-> IF nan > 0 /\ i % nan = 0 THEN NaN ELSE 10 + ((i * es) % 7) ]

RowTables ==
    { [i \in 1..n |-> RowAt(i, ls, us, es, nan)] :
        n \in TableSizes, ls \in LengthStrides, us \in LetterStrides,
        es \in EntropyStrides, nan \in NanPeriods }

HighPercentiles == {PERCENTILE_HIGH, 750, 500}

LowPercentiles == {PERCENTILE_LOW, 250, 500}

ConstrainedPercentiles == {PERCENTILE_CONSTRAINED, 750, 500}

MaxPerTemplateArg == 2

InitTemplates ==
    /\ featureTable \in { OkFile(T) : T \in RowTables }
    /\ result = NoCall
    /\ Idle

\* one call is made on each table: the templates keep no state between calls
TemplateResult(op, args, data) == [op |-> op, kind |-> "list", data |-> data, args |-> args]

CallExtremeOutliers ==
    /\ result = NoCall
    /\ \E use_high \in BOOLEAN :
         \E p \in IF use_high THEN HighPercentiles ELSE LowPercentiles :
           result' = TemplateResult("template_extreme_outliers",
                         [use_high |-> use_high, percentile |-> p],
                         TemplateExtremeOutliers(featureTable.data, FeatureNames, p, p,
                                                 MIN_WORD_LENGTH, MAX_CANDIDATES, use_high))
    /\ UNCHANGED <<now, files, conc>>

CallConstrainedExtremes ==
    /\ result = NoCall
    /\ \E p \in ConstrainedPercentiles :
           result' = TemplateResult("template_constrained_extremes", [percentile |-> p],
                         TemplateConstrainedExtremes(featureTable.data, FeatureNames,
                                                     "unique_letters", CONSTRAINT_MIN, p,
                                                     MIN_WORD_LENGTH, MAX_CANDIDATES))
    /\ UNCHANGED <<now, files, conc>>

CallRatioAnomalies ==
    /\ result = NoCall
    /\ result' = TemplateResult("template_ratio_anomalies", <<>>,
                     TemplateRatioAnomalies(featureTable.data, FeatureNames,
                                            MIN_WORD_LENGTH, MAX_CANDIDATES))
    /\ UNCHANGED <<now, files, conc>>

CallRunAllTemplates ==
    /\ result = NoCall
    /\ \E k \in 1..MaxPerTemplateArg :
           result' = TemplateResult("run_all_templates", [max_per_template |-> k],
                         RunAllTemplatesOnRows(featureTable.data, FeatureNames, k))
    /\ UNCHANGED <<now, files, conc>>

NextTemplates ==
    \/ CallExtremeOutliers
    \/ CallConstrainedExtremes
    \/ CallRatioAnomalies
    \/ CallRunAllTemplates

SpecTemplates == InitTemplates /\ [][NextTemplates]_vars

(***************************************************************************)
(* Vocabulary of the template properties: the row of a word, the rows a    *)
(* template may draw from, and the rows at or beyond the threshold         *)
(***************************************************************************)
RowOfWord(table, w) == table[CHOOSE i \in 1..Len(table) : table[i].word = w]

IndexOfWord(table, w) == CHOOSE i \in 1..Len(table) : table[i].word = w

LengthInRange(row) == row.length >= 5 /\ row.length <= 18

\* indices of the rows with a length in range and a value for the metric, ascending
EligibleRows(table, metric) ==
    SelectSeq(Indices(Len(table)), LAMBDA i : LengthInRange(table[i]) /\ table[i][metric] # NaN)

ValuesAt(table, rows, metric) == [k \in 1..Len(rows) |-> table[rows[k]][metric]]

\* 1000 times the percentile of the metric over the eligible rows
ThresholdOf(table, metric, p) ==
    PercentileValue(ValuesAt(table, EligibleRows(table, metric), metric), p)

BeyondThreshold(v, thresh, use_high) ==
    IF use_high THEN v * 1000 >= thresh ELSE v * 1000 <= thresh

\* indices of the eligible rows at or beyond the threshold, ascending
PassingRows(table, metric, p, use_high) ==
    LET thresh == ThresholdOf(table, metric, p)
    IN  SelectSeq(EligibleRows(table, metric),
                  LAMBDA i : BeyondThreshold(table[i][metric], thresh, use_high))

ExtremeCalled == result.op = "template_extreme_outliers"

(***************************************************************************)
(* C16: every word of every candidate the Extreme-Outliers template        *)
(* returns has a finite metric value at or above the threshold (high       *)
(* direction) or at or below it (low direction), the threshold being the   *)
(* requested percentile of the metric over the rows with a length in       *)
(* [5, 18], and has itself a length in [5, 18]; this holds for candidates  *)
(* cut down to 8 words too.                                                *)
(***************************************************************************)
C16_SelectedWordsAreExtreme ==
    ExtremeCalled =>
        \A n \in 1..Len(result.data) :
            LET c == result.data[n]
                thresh == ThresholdOf(featureTable.data, c.metric_a, result.args.percentile)
            IN  \A k \in 1..Len(c.words) :
                    LET row == RowOfWord(featureTable.data, c.words[k])
                    IN  /\ LengthInRange(row)
                        /\ row[c.metric_a] # NaN
                        /\ BeyondThreshold(row[c.metric_a], thresh, result.args.use_high)

\* the high run returned a candidate on length that was cut down to 8 words, on a
\* table holding a 19-letter word: that word is beyond the threshold and not selected
C16_Witness ==
    /\ ExtremeCalled /\ result.args.use_high
    /\ \E n \in 1..Len(result.data) :
           /\ result.data[n].metric_a = "length"
           /\ Len(result.data[n].words) = 8
           /\ Len(PassingRows(featureTable.data, "length", result.args.percentile, TRUE)) > 8
           /\ \E i \in 1..Len(featureTable.data) :
                  /\ featureTable.data[i].length = 19
                  /\ \A k \in 1..8 : result.data[n].words[k] # featureTable.data[i].word

\* indices of the rows the Constrained-Extremes template works on, ascending
ConstrainedRows(table) ==
    SelectSeq(Indices(Len(table)), LAMBDA i : LengthInRange(table[i]) /\ table[i].unique_letters >= 6)

ConstrainedEligible(table, metric) ==
    SelectSeq(ConstrainedRows(table), LAMBDA i : table[i][metric] # NaN)

\* indices of the constrained rows at or above the percentile of the metric among them
ConstrainedPassing(table, metric, p) ==
    LET rows == ConstrainedEligible(table, metric)
        thresh == PercentileValue(ValuesAt(table, rows, metric), p)
    IN  SelectSeq(rows, LAMBDA i : table[i][metric] * 1000 >= thresh)

ConstrainedCalled == result.op = "template_constrained_extremes"

RatioCalled == result.op = "template_ratio_anomalies"

\* the candidates of the call that carry the given primary metric
CandidatesOn(metric) == SelectSeq(result.data, LAMBDA c : c.metric_a = metric)

\* no candidate when fewer than 4 rows pass, otherwise one candidate holding all the
\* passing rows up to 8, and exactly 8 beyond
OneCandidateOf(metric, eligible, needed, passing) ==
    IF eligible < needed \/ passing < 4
    THEN CandidatesOn(metric) = <<>>
    ELSE /\ Len(CandidatesOn(metric)) = 1
         /\ Len(CandidatesOn(metric)[1].words) = IF passing > 8 THEN 8 ELSE passing

(***************************************************************************)
(* C17: every candidate emitted by the Extreme-Outliers, the               *)
(* Constrained-Extremes or the Ratio-Anomalies template has at least 4 and *)
(* at most 8 words; a metric with fewer than 4 rows beyond the threshold   *)
(* yields no candidate, one with 4 to 8 such rows yields a candidate       *)
(* holding all of them, and one with more than 8 yields a candidate of     *)
(* exactly 8 words.                                                        *)
(***************************************************************************)
C17_FourToEightWords ==
    /\ (ExtremeCalled \/ ConstrainedCalled \/ RatioCalled) =>
          \A n \in 1..Len(result.data) :
              Len(result.data[n].words) >= 4 /\ Len(result.data[n].words) <= 8
    /\ ExtremeCalled =>
          \A f \in 1..Len(FeatureNames) :
              OneCandidateOf(FeatureNames[f],
                             Len(EligibleRows(featureTable.data, FeatureNames[f])), 20,
                             Len(PassingRows(featureTable.data, FeatureNames[f],
                                             result.args.percentile, result.args.use_high)))
    /\ ConstrainedCalled =>
          IF Len(ConstrainedRows(featureTable.data)) < 30 THEN result.data = <<>>
          ELSE \A f \in 1..Len(FeatureNames) :
                   IF FeatureNames[f] = "unique_letters"
                   THEN CandidatesOn(FeatureNames[f]) = <<>>
                   ELSE OneCandidateOf(FeatureNames[f],
                            Len(ConstrainedEligible(featureTable.data, FeatureNames[f])), 10,
                            Len(ConstrainedPassing(featureTable.data, FeatureNames[f],
                                                   result.args.percentile)))

\* one Extreme-Outliers call met the three cases: a metric with fewer than 4 rows
\* beyond the threshold and no candidate, a metric with 4 to 8 and a candidate
\* holding them all, and a metric with more than 8 and a candidate of 8 words
C17_Witness ==
    /\ ExtremeCalled
    /\ \E f, g, h \in 1..Len(FeatureNames) :
           LET passing(k) == Len(PassingRows(featureTable.data, FeatureNames[k],
                                             result.args.percentile, result.args.use_high))
           IN  /\ Len(EligibleRows(featureTable.data, FeatureNames[f])) >= 20
               /\ passing(f) < 4 /\ CandidatesOn(FeatureNames[f]) = <<>>
               /\ passing(g) \in 4..8
               /\ Len(CandidatesOn(FeatureNames[g])) = 1
               /\ Len(CandidatesOn(FeatureNames[g])[1].words) = passing(g)
               /\ passing(h) > 8
               /\ Len(CandidatesOn(FeatureNames[h])) = 1
               /\ Len(CandidatesOn(FeatureNames[h])[1].words) = 8

\* position int(i * step) of the i-th kept row (i from 1) among n passing rows, from 0
SpacedPosition(i, n) == ((i - 1) * n) \div 8

MetricOf(table, w, metric) == RowOfWord(table, w)[metric]

\* the 8 words are the rows at the evenly spaced positions of the passing rows put
\* in order of metric value, ascending or descending, whatever the order among equals
InMetricOrder(words, table, metric, passing) ==
    LET n == Len(passing)
        vals == ValuesAt(table, passing, metric)
    IN  \/ \A i \in 1..8 :
               MetricOf(table, words[i], metric) = OrderStat(vals, SpacedPosition(i, n))
        \/ \A i \in 1..8 :
               MetricOf(table, words[i], metric) = OrderStat(vals, n - 1 - SpacedPosition(i, n))

\* the words are the passing rows in table order, or the rows at the evenly spaced
\* positions of that order when more than 8 pass
InTableOrder(words, table, passing) ==
    LET n == Len(passing)
    IN  IF n > 8
        THEN /\ Len(words) = 8
             /\ \A i \in 1..8 : words[i] = table[passing[SpacedPosition(i, n) + 1]].word
        ELSE words = WordsAt(table, passing)

(***************************************************************************)
(* C18 as stated: when more than 8 rows pass the threshold, the            *)
(* Extreme-Outliers and the Constrained-Extremes template keep the rows at *)
(* the evenly spaced positions of the passing rows ordered by metric       *)
(* value.                                                                  *)
(***************************************************************************)
C18_SubsampleOfSortedRows ==
    /\ ExtremeCalled =>
          \A f \in 1..Len(FeatureNames) :
              LET passing == PassingRows(featureTable.data, FeatureNames[f],
                                         result.args.percentile, result.args.use_high)
              IN  (Len(passing) > 8 /\ CandidatesOn(FeatureNames[f]) # <<>>) =>
                      InMetricOrder(CandidatesOn(FeatureNames[f])[1].words, featureTable.data,
                                    FeatureNames[f], passing)
    /\ ConstrainedCalled =>
          \A f \in 1..Len(FeatureNames) :
              LET passing == ConstrainedPassing(featureTable.data, FeatureNames[f],
                                                result.args.percentile)
              IN  (Len(passing) > 8 /\ CandidatesOn(FeatureNames[f]) # <<>>) =>
                      InMetricOrder(CandidatesOn(FeatureNames[f])[1].words, featureTable.data,
                                    FeatureNames[f], passing)

(***************************************************************************)
(* C18 amended: the words of a candidate are the threshold-passing rows in *)
(* table order (increasing row index); when more than 8 rows pass, they    *)
(* are the rows at the evenly spaced positions int(i * n / 8), i = 0..7,   *)
(* of the passing rows in table order, in the Extreme-Outliers and the     *)
(* Constrained-Extremes template, and the words of a Ratio-Anomalies       *)
(* candidate are in table order too.                                       *)
(***************************************************************************)
C18_SubsampleOfTableOrder ==
    /\ ExtremeCalled =>
          \A f \in 1..Len(FeatureNames) :
              CandidatesOn(FeatureNames[f]) # <<>> =>
                  InTableOrder(CandidatesOn(FeatureNames[f])[1].words, featureTable.data,
                               PassingRows(featureTable.data, FeatureNames[f],
                                           result.args.percentile, result.args.use_high))
    /\ ConstrainedCalled =>
          \A f \in 1..Len(FeatureNames) :
              CandidatesOn(FeatureNames[f]) # <<>> =>
                  InTableOrder(CandidatesOn(FeatureNames[f])[1].words, featureTable.data,
                               ConstrainedPassing(featureTable.data, FeatureNames[f],
                                                  result.args.percentile))
    /\ RatioCalled =>
          \A n \in 1..Len(result.data) :
              \A k \in 1..(Len(result.data[n].words) - 1) :
                  IndexOfWord(featureTable.data, result.data[n].words[k])
                      < IndexOfWord(featureTable.data, result.data[n].words[k + 1])

\* a candidate was cut down to 8 words and their metric values, in the order of the
\* words, go down at one place and up at another
C18_Witness ==
    /\ ExtremeCalled
    /\ \E f \in 1..Len(FeatureNames) :
           /\ CandidatesOn(FeatureNames[f]) # <<>>
           /\ Len(PassingRows(featureTable.data, FeatureNames[f],
                              result.args.percentile, result.args.use_high)) > 8
           /\ LET words == CandidatesOn(FeatureNames[f])[1].words
                  v(k) == MetricOf(featureTable.data, words[k], FeatureNames[f])
              IN  /\ \E k \in 1..7 : v(k) > v(k + 1)
                  /\ \E k \in 1..7 : v(k) < v(k + 1)

\* how many candidates of the call carry the template id
CountOfTemplate(tid) == Len(SelectSeq(result.data, LAMBDA c : c.template_id = tid))

(***************************************************************************)
(* C19 as stated: in the output of run_all_templates the candidates with   *)
(* template id extreme_outliers (both directions together), those with     *)
(* constrained_extremes and those with ratio_anomaly each number at most   *)
(* max_per_template.                                                       *)
(***************************************************************************)
C19_EachFamilyCapped ==
    result.op = "run_all_templates" =>
        /\ CountOfTemplate("extreme_outliers") <= result.args.max_per_template
        /\ CountOfTemplate("constrained_extremes") <= result.args.max_per_template
        /\ CountOfTemplate("ratio_anomaly") <= result.args.max_per_template

(***************************************************************************)
(* SpecPqs: scoring.pqs applied to the four sub-scores of a candidate, and *)
(* the payloads built from the score.  Sub-scores are in hundredths, the   *)
(* score in thousandths, so the weights 0.4, 0.3, 0.4, 0.5 are 4, 3, 4, 5. *)
(***************************************************************************)
\* _outlier_strength: abs(mean_sel - mean_all) / std_all, 0.0 and up
OutlierStrengths == {0, 175, 399, 400}

\* _internal_coherence: max(0.0, 1.0 - std_sel / std_all)
Coherences == {0, 99, 100}

\* _human_guessability: 1.0, 0.7 or 0.4 by mean length
Guessabilities == {40, 70, 100}

\* _obscurity_penalty: min(1.0, penalty / len(words))
Obscurities == {0, 20, 21, 100}

SubScores ==
    { [outlier |-> o, coherence |-> c, guessability |-> g, obscurity |-> ob] :
        o \in OutlierStrengths, c \in Coherences, g \in Guessabilities, ob \in Obscurities }

\* faulty variant: the obscurity penalty is added
PqsAddsObscurity(o, c, g, ob) == 4 * o + 3 * c + 4 * g + 5 * ob

\* return o * 0.4 + c * 0.3 + g * 0.4 - ob * 0.5
PqsOfSubScores(o, c, g, ob) == 4 * o + 3 * c + 4 * g - 5 * ob

\* pqs(candidate, table) for a candidate with sub-scores s
PqsOf(s) == PqsOfSubScores(s.outlier, s.coherence, s.guessability, s.obscurity)

\* the candidate the score belongs to
ScoredPattern == EntropyHigh

InitPqs ==
    /\ featureTable \in { OkFile(<<s>>) : s \in SubScores }
    /\ result = NoCall
    /\ Idle

\* pqs_score = pqs(candidate, table)
CallPqs ==
    /\ result.op = NoCall.op
    /\ result' = [op |-> "pqs", kind |-> "score", data |-> PqsOf(featureTable.data[1])]
    /\ UNCHANGED <<now, files, conc>>

\* generate_random_puzzle: return _puzzle_dict(candidate, pqs_score)
ReturnPuzzleDict ==
    /\ result.op = "pqs"
    /\ result' = CallResult("generate_random_puzzle", Returned(PuzzleDict(ScoredPattern, result.data)))
    /\ UNCHANGED <<now, files, conc>>

\* generate_daily: _write_today_json(pattern, pqs_score); return {**_puzzle_dict(...), "date": ...}
WriteAndReturnDaily ==
    /\ result.op = "pqs"
    /\ todayFile' = WriteTodayJson(ScoredPattern, result.data, now)
    /\ result' = CallResult("generate_daily", Returned(DailyDict(ScoredPattern, result.data, now)))
    /\ UNCHANGED <<now, featureTable, usedFile, conc>>

\* load_today() on the record generate_daily wrote
ReadBackToday ==
    /\ result.op = "generate_daily"
    /\ result' = CallResult("load_today", LoadToday(todayFile, now))
    /\ UNCHANGED <<now, files, conc>>

NextPqs ==
    \/ CallPqs
    \/ ReturnPuzzleDict
    \/ WriteAndReturnDaily
    \/ ReadBackToday

SpecPqs == InitPqs /\ [][NextPqs]_vars

(***************************************************************************)
(* C21: the score is 0.4*outlier + 0.3*coherence + 0.4*guessability -      *)
(* 0.5*obscurity, and with outlier strength, coherence and guessability    *)
(* held fixed a larger obscurity penalty never gives a larger score.       *)
(***************************************************************************)
C21_NonIncreasingInObscurity ==
    result.op = "pqs" =>
        LET s == featureTable.data[1]
        IN  /\ 10 * result.data
                 = 4 * (10 * s.outlier) + 3 * (10 * s.coherence)
                   + 4 * (10 * s.guessability) - 5 * (10 * s.obscurity)
            /\ \A ob \in Obscurities :
                   /\ ob > s.obscurity => PqsOf([s EXCEPT !.obscurity = ob]) <= result.data
                   /\ ob < s.obscurity => PqsOf([s EXCEPT !.obscurity = ob]) >= result.data

\* a candidate with the full penalty scored half a point below the same one with none
C21_Witness ==
    /\ result.op = "pqs"
    /\ featureTable.data[1].obscurity = 100
    /\ featureTable.data[1].outlier = 400
    /\ result.data = PqsOf([featureTable.data[1] EXCEPT !.obscurity = 0]) - 500

(***************************************************************************)
(* C22: every payload returned by generate_daily, load_today or            *)
(* generate_random_puzzle carries the label 'easy' when the score is at    *)
(* least 2.2, 'medium' when it is at least 1.4 and below 2.2, and 'hard'   *)
(* otherwise; no other label occurs.                                       *)
(***************************************************************************)
C22_DifficultyBands ==
    result.kind = "puzzle" =>
        LET score == PqsOf(featureTable.data[1])
            label == result.data.difficulty
        IN  /\ label \in {"easy", "medium", "hard"}
            /\ label = "easy" <=> score >= 2200
            /\ label = "medium" <=> (score >= 1400 /\ score < 2200)
            /\ label = "hard" <=> score < 1400

\* load_today returned a payload whose score sits exactly on the 'easy' boundary
C22_Witness ==
    /\ result.op = "load_today"
    /\ result.kind = "puzzle"
    /\ PqsOf(featureTable.data[1]) = 2200
    /\ result.data.difficulty = "easy"

(***************************************************************************)
(* SpecApi: the web layer's /api/today, /api/random and /api/check, each   *)
(* handler as one step on the files and on the cache of random puzzles     *)
(***************************************************************************)
\* how many random puzzles the cache holds at once
MaxTokens == 2

\* secrets.token_urlsafe(16), numbered
Tokens == 1..MaxTokens

\* token: str = ""
NoToken == 0

\* a guess as check_guess sees it: whether normalize(guess) has fewer than 3
\* characters, and whether _keyword_match accepts it for the rule
Guesses == { g \in [short : BOOLEAN, keyword_ok : BOOLEAN] : g.short => ~g.keyword_ok }

\* OPENAI_API_KEY unset, or what _ai_semantic_match answers
AiVerdicts == {"no key", "YES", "NO", "error"}

Correct == [correct |-> TRUE, message |-> "Correct!"]

NotQuite(message) == [correct |-> FALSE, message |-> message]

CheckGuess(guess, ai) ==
    IF guess.short THEN NotQuite("Type a short description")
    ELSE IF ai = "error" THEN (IF guess.keyword_ok THEN Correct ELSE NotQuite("Not quite (AI check unavailable)"))
    ELSE IF ai # "no key" THEN (IF ai = "YES" THEN Correct ELSE NotQuite("Not quite"))
    ELSE IF guess.keyword_ok THEN Correct
    ELSE NotQuite("Not quite")

ErrorResponse(error) == [ok |-> FALSE, error |-> error]

\* an exception the handler does not catch: the server answers 500
ServerError == [status |-> "500 Internal Server Error"]

\* faulty variant: the rule is sent whatever reveal_answer says
TodayResponseWithRule(data, reveal_answer) ==
    [ok |-> TRUE, date |-> data.date, words |-> data.words, hints |-> data.hints,
     difficulty |-> data.difficulty, rule |-> data.rule]

TodayResponse(data, reveal_answer) ==
    LET out == [ok |-> TRUE, date |-> data.date, words |-> data.words, hints |-> data.hints,
                difficulty |-> data.difficulty]
    IN  IF reveal_answer THEN [rule |-> data.rule] @@ out ELSE out

RandomResponse(data, token, reveal_answer) ==
    LET out == [ok |-> TRUE, date |-> "Random", words |-> data.words, hints |-> data.hints,
                difficulty |-> data.difficulty, token |-> token]
    IN  IF reveal_answer THEN [rule |-> data.rule] @@ out ELSE out

CheckResponse(verdict, rule) ==
    LET out == [ok |-> TRUE, correct |-> verdict.correct, message |-> verdict.message]
    IN  IF verdict.correct THEN [rule |-> rule] @@ out ELSE out

\* _get_cached_random: expired entries are dropped, then the token is looked up
GetCachedRandom(token, cache) ==
    IF token = NoToken THEN [found |-> FALSE, entry |-> <<>>, cache |-> cache]
    ELSE LET kept == [t \in {k \in DOMAIN cache : cache[k].fresh} |-> cache[t]]
         IN  IF token \in DOMAIN kept THEN [found |-> TRUE, entry |-> kept[token], cache |-> kept]
             ELSE [found |-> FALSE, entry |-> <<>>, cache |-> kept]

ApiResult(op, args, response) == [op |-> op, kind |-> "response", data |-> response, args |-> args]

InitApi ==
    /\ now = StartDay
    /\ featureTable \in {MissingFile, OkFile(SmallTable)}
    /\ usedFile \in {MissingFile, CorruptFile}
    /\ todayFile = MissingFile
    /\ result = NoCall
    /\ pc = [p \in Procs |-> "done"]
    /\ loc = [p \in Procs |-> NoLocals]
    /\ appended = <<>>
    /\ randomPuzzleCache = <<>>

\* GET /api/today
ApiToday ==
    LET outcome == EnsureTodayPuzzleCall(featureTable, usedFile, todayFile, now)
        ret == outcome.ret
    IN  \E reveal_answer \in BOOLEAN :
            LET response ==
                    IF ret.kind = "FileNotFoundError" THEN ErrorResponse("feature table not built")
                    ELSE IF ret.kind = "None" THEN ErrorResponse("No puzzle available")
                    ELSE IF ret.kind = "puzzle" THEN TodayResponse(ret.data, reveal_answer)
                    ELSE ServerError
            IN  /\ result' = ApiResult("api_today", [reveal_answer |-> reveal_answer], response)
                /\ usedFile' = outcome.used
                /\ todayFile' = outcome.today
                /\ UNCHANGED <<now, featureTable, conc>>

\* GET /api/random
ApiRandom ==
    LET outcomes == GenerateRandomPuzzleCalls(featureTable, usedFile, todayFile, now)
    IN  \E reveal_answer \in BOOLEAN, token \in Tokens \ DOMAIN randomPuzzleCache, outcome \in outcomes :
            LET ret == outcome.ret
                response ==
                    IF ret.kind = "FileNotFoundError" THEN ErrorResponse("feature table not built")
                    ELSE IF ret.kind = "None" THEN ErrorResponse("Could not generate a puzzle")
                    ELSE IF ret.kind = "puzzle" THEN RandomResponse(ret.data, token, reveal_answer)
                    ELSE ServerError
                entry == [rule |-> ret.data.rule, metric_a |-> ret.data.metric_a, fresh |-> TRUE]
            IN  /\ result' = ApiResult("api_random", [reveal_answer |-> reveal_answer], response)
                /\ randomPuzzleCache' =
                       IF ret.kind = "puzzle" THEN (token :> entry) @@ randomPuzzleCache
                       ELSE randomPuzzleCache
                /\ UNCHANGED <<now, files, pc, loc, appended>>

\* more than _RANDOM_CACHE_TTL_SEC pass: every cached entry is now expired
CacheTtlPasses ==
    /\ \E t \in DOMAIN randomPuzzleCache : randomPuzzleCache[t].fresh
    /\ randomPuzzleCache' =
           [t \in DOMAIN randomPuzzleCache |-> [randomPuzzleCache[t] EXCEPT !.fresh = FALSE]]
    /\ UNCHANGED <<now, files, result, pc, loc, appended>>

\* POST /api/check
ApiCheck ==
    LET ensured == EnsureTodayPuzzleCall(featureTable, usedFile, todayFile, now)
    IN  \E guess \in Guesses, token \in {NoToken} \cup Tokens, ai \in AiVerdicts :
            LET got == GetCachedRandom(token, randomPuzzleCache)
                outcome == IF got.found THEN Outcome(Returned(got.entry), usedFile, todayFile)
                           ELSE ensured
                ret == outcome.ret
                response ==
                    IF ret.kind \in {"FileNotFoundError", "None"} THEN ErrorResponse("No puzzle available.")
                    ELSE IF ret.kind = "puzzle" THEN CheckResponse(CheckGuess(guess, ai), ret.data.rule)
                    ELSE ServerError
            IN  /\ result' = ApiResult("api_check", [guess |-> guess, token |-> token], response)
                /\ randomPuzzleCache' = got.cache
                /\ usedFile' = outcome.used
                /\ todayFile' = outcome.today
                /\ UNCHANGED <<now, featureTable, pc, loc, appended>>

NextApi ==
    \/ ApiToday
    \/ ApiRandom
    \/ CacheTtlPasses
    \/ ApiCheck

SpecApi == InitApi /\ [][NextApi]_vars

(***************************************************************************)
(* C23: the /api/today and /api/random responses contain the rule only     *)
(* when reveal_answer is true, and the /api/check response contains the    *)
(* rule only when the guess was judged correct.                            *)
(***************************************************************************)
HasRule(response) == "rule" \in DOMAIN response

C23_RuleWithheld ==
    /\ result.op \in {"api_today", "api_random"} =>
           (HasRule(result.data) => result.args.reveal_answer)
    /\ result.op = "api_check" =>
           (HasRule(result.data) => result.data.correct)

\* a wrong guess at a cached random puzzle was answered without the rule
C23_Witness ==
    /\ result.op = "api_check"
    /\ result.args.token # NoToken
    /\ "correct" \in DOMAIN result.data
    /\ ~result.data.correct
    /\ ~HasRule(result.data)

(***************************************************************************)
(* SpecSubsample: the subsampling step of the templates applied to a list  *)
(* of passing row indices.  For these lengths and caps i * (len / cap) in  *)
(* double precision truncates to the same integer as (i * len) div cap.    *)
(***************************************************************************)
\* the longest list of passing rows
MaxIdxLen == 20

\* max_candidates: the templates' default 8 and smaller caps
SubsampleCaps == {1, 2, 3, 4, 8}

\* np.where(...)[0]: increasing row indices, consecutive or with gaps
IdxStrides == {1, 3}

IdxOf(n, stride) == [k \in 1..n |-> 1 + (k - 1) * stride]

SubsampleInputs ==
    { [idx |-> IdxOf(n, stride), max_candidates |-> m] :
        n \in 1..MaxIdxLen, stride \in IdxStrides, m \in SubsampleCaps }

InitSubsample ==
    /\ featureTable \in { OkFile(<<inp>>) : inp \in SubsampleInputs }
    /\ result = NoCall
    /\ Idle

\* if len(idx) > max_candidates: step = ...; idx = idx[[int(i * step) for i in range(max_candidates)]]
CallSubsample ==
    /\ result.op = NoCall.op
    /\ result' = [op |-> "subsample", kind |-> "rows",
                  data |-> Subsample(featureTable.data[1].idx, featureTable.data[1].max_candidates)]
    /\ UNCHANGED <<now, files, conc>>

NextSubsample == CallSubsample

SpecSubsample == InitSubsample /\ [][NextSubsample]_vars

\* the 0-based position in idx of a row index
PositionIn(idx, row) == (CHOOSE p \in 1..Len(idx) : idx[p] = row) - 1

(***************************************************************************)
(* C24: when more rows pass than max_candidates, the rows kept are those   *)
(* at positions int(i * len(idx) / max_candidates) for i = 0 ..            *)
(* max_candidates-1; the positions start at 0, are strictly increasing and *)
(* pairwise distinct and lie in [0, len(idx)-1], so exactly max_candidates *)
(* distinct rows are kept.                                                 *)
(***************************************************************************)
C24_SubsamplePositions ==
    (result.op = "subsample" /\ Len(featureTable.data[1].idx) > featureTable.data[1].max_candidates) =>
        LET idx == featureTable.data[1].idx
            m == featureTable.data[1].max_candidates
            kept == result.data
            pos == [i \in 1..Len(kept) |-> PositionIn(idx, kept[i])]
        IN  /\ Len(kept) = m
            /\ \A i \in 1..m : kept[i] \in {idx[p] : p \in 1..Len(idx)}
            /\ \A i \in 1..m : pos[i] * m <= (i - 1) * Len(idx) /\ (i - 1) * Len(idx) < (pos[i] + 1) * m
            /\ pos[1] = 0
            /\ \A i \in 1..(m - 1) : pos[i] < pos[i + 1]
            /\ \A i \in 1..m : pos[i] >= 0 /\ pos[i] <= Len(idx) - 1
            /\ Cardinality({kept[i] : i \in 1..m}) = m

\* 20 passing rows were cut to 8: positions 0, 2, 5, 7, 10, 12, 15, 17
C24_Witness ==
    /\ result.op = "subsample"
    /\ featureTable.data[1].idx = IdxOf(20, 3)
    /\ featureTable.data[1].max_candidates = 8
    /\ result.data = <<1, 7, 16, 22, 31, 37, 46, 52>>

(***************************************************************************)
(* C25: every candidate the Constrained-Extremes template returns holds    *)
(* only words with unique_letters >= 6 and a length in [5, 18], and its    *)
(* primary metric is not the constraint metric; when fewer than 30 rows    *)
(* satisfy the constraint and the length bounds the template returns an    *)
(* empty list.                                                             *)
(***************************************************************************)
C25_ConstraintHoldsForEveryWord ==
    ConstrainedCalled =>
        /\ \A n \in 1..Len(result.data) :
               LET c == result.data[n]
               IN  /\ c.metric_a # "unique_letters"
                   /\ c.metric_b = "unique_letters"
                   /\ \A k \in 1..Len(c.words) :
                          LET row == RowOfWord(featureTable.data, c.words[k])
                          IN  /\ row.unique_letters >= 6
                              /\ row.length >= 5
                              /\ row.length <= 18
        /\ Cardinality({ i \in 1..Len(featureTable.data) :
                             /\ featureTable.data[i].unique_letters >= 6
                             /\ featureTable.data[i].length >= 5
                             /\ featureTable.data[i].length <= 18 }) < 30
               => result.data = <<>>

\* a candidate on length was returned from a table that also holds a word of the
\* same or greater length with fewer than 6 unique letters, which was not selected
C25_Witness ==
    /\ ConstrainedCalled
    /\ \E n \in 1..Len(result.data) :
           /\ result.data[n].metric_a = "length"
           /\ \E i \in 1..Len(featureTable.data) :
                  /\ featureTable.data[i].unique_letters < 6
                  /\ featureTable.data[i].length <= 18
                  /\ \A k \in 1..Len(result.data[n].words) :
                         /\ result.data[n].words[k] # featureTable.data[i].word
                         /\ RowOfWord(featureTable.data, result.data[n].words[k]).length
                                <= featureTable.data[i].length

\* whether the text of a hint holds "unusually high" or "unusually low": put there with
\* the direction, or part of the table entry (max_letter_frequency: "an unusually high
\* (or low) ... count")
Mentions(hint, direction) ==
    \/ hint.unusually = direction
    \/ /\ direction = "high"
       /\ hint.unusually = ""
       /\ hint.level = 3
       /\ hint.topic = "max_letter_frequency"

Verbatim(hints) == \A k \in 1..Len(hints) : hints[k].unusually = ""

\* the rule description contains "lowest"
RuleContainsLowest(pattern) == pattern.rule_description.direction = "lowest"

\* the rule description contains "low " without containing "lowest": "... unusually
\* high {ma} and low {mb} (ratio anomaly)"
RuleContainsLowSpace(pattern) == pattern.rule_description.direction = "unusually high"

C27_OneAppendPerDate ==
    /\ \A i, j \in 1..Len(appended) : appended[i].date = appended[j].date => i = j
    /\ AllDone =>
           Cardinality({ i \in 1..Len(LogOf(usedFile)) :
                             DayOfDate(LogOf(usedFile)[i].date) = now }) <= 1

(***************************************************************************)
(* C28: the rule signature does not include the direction: the highest and *)
(* the lowest Extreme-Outliers candidates on one metric have the same      *)
(* signature, so generate_daily() never picks an Extreme-Outliers          *)
(* candidate on a metric for which the history log holds an                *)
(* Extreme-Outliers entry of the last 30 days, whichever its direction.    *)
(***************************************************************************)
IsExtremeOn(x, metric) == x.template_id = "extreme_outliers" /\ x.metric_a = metric

C28_DirectionNotInSignature ==
    [][ /\ featureTable.state = "ok" =>
             \A i, j \in 1..Len(featureTable.data) :
                 LET c == featureTable.data[i]
                     d == featureTable.data[j]
                 IN  (IsExtremeOn(c, d.metric_a) /\ IsExtremeOn(d, d.metric_a))
                         => PatternSignature(c) = PatternSignature(d)
        /\ DailyReturnsPuzzle =>
             \A i \in 1..Len(LogOf(usedFile)) :
                 LET e == LogOf(usedFile)[i]
                 IN  (e.template_id = "extreme_outliers" /\ DatedWithin(e, now, 30))
                         => ~IsExtremeOn(NewRecord, e.metric_a) ]_vars

\* the log held the highest-entropy pick of the last 30 days and no lowest-entropy
\* one; the table's lowest-entropy candidate outranks the candidate just picked
C28_Witness ==
    /\ result.op = "generate_daily" /\ result.kind = "puzzle"
    /\ featureTable.state = "ok"
    /\ LET log == LogOf(usedFile)
       IN  /\ Len(log) >= 2
           /\ \E i \in 1..(Len(log) - 1) :
                  /\ IsExtremeOn(log[i], "entropy")
                  /\ log[i].rule.direction = "highest"
                  /\ DatedWithin(log[i], now, 30)
           /\ \A i \in 1..Len(log) : log[i].rule.direction # "lowest"
           /\ \E j \in 1..Len(featureTable.data) :
                  /\ IsExtremeOn(featureTable.data[j], "entropy")
                  /\ featureTable.data[j].rule_description.direction = "lowest"
                  /\ featureTable.data[j].score > Last(log).pqs
                  /\ \A k \in 1..Len(featureTable.data[j].words) :
                         EntriesUsing(SubSeq(log, 1, Len(log) - 1), featureTable.data[j].words[k], now, 31) < 2
           /\ Last(log).words = result.data.words

(***************************************************************************)
(* C29: the recency windows include the cutoff day and end after it.  A    *)
(* history entry dated exactly 30 days before today blocks its signature   *)
(* and one dated 31 or more days before does not; an entry dated exactly   *)
(* 31 days before today counts towards a word's use count and one dated 32 *)
(* or more days before does not.  So generate_daily() never picks a        *)
(* signature of an entry 30 days old nor a word in two entries up to 31    *)
(* days old, and it does pick the top-ranked candidate when every entry    *)
(* with its signature is 31 or more days old and none of its words is in   *)
(* two entries at most 31 days old: a signature recorded on day D is       *)
(* eligible again on day D+31.                                             *)
(***************************************************************************)
EntriesAged(log, lo, hi) == { i \in 1..Len(log) : AgeInDays(log[i], now) \in lo..hi }

UsesAged(log, w, lo, hi) == Cardinality({ i \in EntriesAged(log, lo, hi) : Contains(log[i].words, w) })

C29_WindowsIncludeCutoffDay ==
    [][ /\ DailyReturnsPuzzle =>
             LET log == LogOf(usedFile)
             IN  /\ \A i \in EntriesAged(log, 30, 30) : RuleSignature(log[i]) # RuleSignature(NewRecord)
                 /\ \A k \in 1..Len(NewRecord.words) : UsesAged(log, NewRecord.words[k], 0, 31) < 2
        /\ ( /\ result'.op = "generate_daily"
             /\ featureTable.state = "ok"
             /\ usedFile.state # "corrupt"
             /\ RankedPool(featureTable.data) # <<>> ) =>
             LET log == LogOf(usedFile)
                 top == RankedPool(featureTable.data)[1].candidate
             IN  ( /\ \A i \in EntriesAged(log, 0, 30) : RuleSignature(log[i]) # RuleSignature(top)
                   /\ \A k \in 1..Len(top.words) : UsesAged(log, top.words[k], 0, 31) < 2 )
                 => /\ result'.kind = "puzzle"
                    /\ result'.data.words = top.words
                    /\ RuleSignature(NewRecord) = RuleSignature(top) ]_vars

\* generate_daily picked a signature again on the 31st day after it was recorded,
\* and the log holds another signature's entry that was 30 days old at that pick
C29_Witness ==
    /\ result.op = "generate_daily" /\ result.kind = "puzzle"
    /\ LET log == LogOf(usedFile)
       IN  /\ Len(log) >= 2
           /\ DayOfDate(Last(log).date) = now
           /\ Last(log).words = result.data.words
           /\ \E i \in 1..(Len(log) - 1) :
                  /\ AgeInDays(log[i], now) = 31
                  /\ RuleSignature(log[i]) = RuleSignature(Last(log))

(***************************************************************************)
(* SpecSteps: calls of generate_daily() and ensure_today_puzzle() made one *)
(* after another by request 1, each running step by step.  Every step      *)
(* that stamps a date reads datetime.utcnow() itself, so the date may      *)
(* change between two steps of one call, and a call may die at any step    *)
(* (an exception from the file system, or the process being stopped).      *)
(***************************************************************************)
InitSteps ==
    /\ now = StartDay
    /\ featureTable \in {MissingFile} \cup {OkFile(T) : T \in Tables}
    /\ usedFile \in {MissingFile, CorruptFile} \cup {OkFile(log) : log \in EarlierLogs}
    /\ todayFile \in {MissingFile, CorruptFile}
    /\ result = NoCall
    /\ pc = [p \in Procs |-> IF p = 1 THEN "load_today" ELSE "done"]
    /\ loc = [p \in Procs |-> NoLocals]
    /\ appended = <<>>
    /\ randomPuzzleCache = <<>>

\* the UTC date changes; the payload of _write_today_json is stamped before open()
TickBetweenSteps ==
    /\ pc[1] # "today_dump"
    /\ Tick

\* the next call: ensure_today_puzzle() starts at load_today(), generate_daily() at
\* load_feature_table()
StartCall ==
    /\ pc[1] = "done"
    /\ \E first \in {"load_today", "load_table"} : pc' = [pc EXCEPT ![1] = first]
    /\ loc' = [loc EXCEPT ![1] = NoLocals]
    /\ UNCHANGED <<now, files, result, appended, randomPuzzleCache>>

\* the call ends where it stands: what it wrote so far stays as it is
CallDies ==
    /\ pc[1] # "done"
    /\ Finish(1, Raised("OSError"))
    /\ UNCHANGED <<now, files, result, appended, randomPuzzleCache>>

NextSteps ==
    \/ TickBetweenSteps
    \/ StartCall
    \/ CallDies
    \/ StepLoadToday(1)
    \/ StepLoadTable(1)
    \/ StepSelect(1)
    \/ StepSaveLoad(1)
    \/ StepSaveOpen(1)
    \/ StepSaveDump(1)
    \/ StepTodayOpen(1)
    \/ StepTodayDump(1)

SpecSteps == InitSteps /\ [][NextSteps]_vars

(***************************************************************************)
(* C30 as stated: whenever the today record exists and is stamped with     *)
(* today's date, the history log holds a record with the same date, the    *)
(* same words and the same rule, after any sequence of generate_daily and  *)
(* ensure_today_puzzle calls, including a call that fails between the      *)
(* history append and the today write.                                     *)
(***************************************************************************)
TodayRecordInLog ==
    \E i \in 1..Len(LogOf(usedFile)) :
        /\ LogOf(usedFile)[i].date = todayFile.data.date
        /\ LogOf(usedFile)[i].words = todayFile.data.words
        /\ LogOf(usedFile)[i].rule = todayFile.data.rule

C30_TodayRecordNeverAhead ==
    (pc[1] = "done" /\ TodayRecordIsCurrent) => TodayRecordInLog

====
